---------------------------- MODULE Spec2Model ----------------------------
(***************************************************************************)
(* A model of streamlit_app.py: the master data generators, the report     *)
(* generators, the dispatcher generate_selected_reports, and the page with *)
(* its connection, its upload loop and the three persistence functions.    *)
(*                                                                         *)
(* Conventions.                                                            *)
(*  - Every call of the random module is an input of the model: a          *)
(*    generator is a deterministic function of its arguments and of the    *)
(*    values drawn, and the actions choose the drawn values with \E.       *)
(*    A draw from a range is taken from a sample of the range, named at    *)
(*    the draw; the sample holds the end points where they matter.         *)
(*  - Money is an integer number of cents where the code rounds to two     *)
(*    decimals; round(x, 2) is RoundDiv (round half to even).  AUM figures *)
(*    are in millions of dollars (FUND_TYPES' 500_000_000 is 500).         *)
(*  - A date is the number of days after start_date = 2023-01-01: it       *)
(*    stands for the string strftime("%Y-%m-%d") gives for that day, which *)
(*    is different for different days.                                     *)
(*  - An optional value (None or a value) is a sequence of length <= 1.    *)
(*  - A table (a list of dicts, then a DataFrame) is a sequence of         *)
(*    records.  `data` holds the rows the running generator appended and   *)
(*    may still touch: all of them for the trial balance, the rows of the  *)
(*    running day for the daily series, the row of the running loop        *)
(*    iteration for the generators that never read a row back; n_rows      *)
(*    counts every row appended.                                           *)
(***************************************************************************)
EXTENDS Integers, Sequences, FiniteSets, TLC

VARIABLES
    gen,                    \* the report generator that is running ("" when none)
    pc,                     \* control point of the running call
    args,                   \* arguments of the running call
    i,                      \* outer loop index (for i in range(...))
    j,                      \* inner loop index (1-based position in the inner list)
    loc,                    \* loop-carried locals of the running call
    data,                   \* rows of the table under construction (see above)
    n_rows,                 \* number of rows appended to the table so far
    columns,                \* keys of the rows appended so far: the columns of the table
    prev_shape,             \* shape of the table an earlier, identical call returned
    MASTER_ENTITIES,        \* module global, line 243
    MASTER_FUNDS_DF,        \* module global, line 244
    MASTER_SECURITIES_DF,   \* module global, line 245
    entities_cache,         \* st.cache_resource store of generate_master_entities
    funds_cache,            \* st.cache_resource store of generate_master_funds_and_securities
    generated_reports_dfs,  \* the mapping the dispatcher returned in this script run
    selected_fund_info,     \* the fund the dispatcher selected in this script run
    calls,                  \* the generator calls the dispatcher made in this script run
    run,                    \* number of the script run (Streamlit reruns the script)
    motherduck_token,       \* the token the script run read (lines 979-987), None when there is none
    conn,                   \* the connection of the script run (lines 989-991), None when absent
    conn_cache,             \* st.cache_resource store of get_motherduck_connection
    truncate_all_selected_tables,  \* the checkbox of line 1031, as the script run read it
    db,                     \* the tables the database holds, each a sequence of batches of rows
    log,                    \* the persistence calls of this script run, with their outcomes
    failures                \* number of persistence calls that failed so far

masterVars == <<MASTER_ENTITIES, MASTER_FUNDS_DF, MASTER_SECURITIES_DF>>
cacheVars == <<entities_cache, funds_cache>>
pageVars == <<motherduck_token, conn, conn_cache, truncate_all_selected_tables,
              db, log, failures>>
sessionVars == <<generated_reports_dfs, selected_fund_info, calls, run, pageVars>>
vars == <<gen, pc, args, i, j, loc, data, n_rows, columns, prev_shape,
          MASTER_ENTITIES, MASTER_FUNDS_DF, MASTER_SECURITIES_DF,
          entities_cache, funds_cache,
          generated_reports_dfs, selected_fund_info, calls, run, pageVars>>

---------------------------------------------------------------------------
(* Bounds of the model. *)

\* Default num_shareholders, num_distributors, num_representatives (100, 10, 50 in the code).
NumShareholders == 2
NumDistributors == 2
NumRepresentatives == 1
\* Default num_funds and num_securities_per_fund (5 and 50 in the code).
NumFunds == 2
NumSecuritiesPerFund == 1
\* Largest record count a generator is called with.
MaxRecords == 2
\* Number of script runs of one Streamlit process.
MaxRuns == 2

---------------------------------------------------------------------------
(* Arithmetic and sequences. *)

Abs(x) == IF x < 0 THEN -x ELSE x

Min(a, b) == IF a <= b THEN a ELSE b

\* round(n / d) for d > 0, ties to the even integer, as Python's round.
RoundDiv(n, d) ==
    LET q == n \div d
        r == n % d
    IN  IF 2 * r < d THEN q
        ELSE IF 2 * r > d THEN q + 1
        ELSE IF q % 2 = 0 THEN q ELSE q + 1

\* round(x * num / den) for den > 0, computed without forming x * num.
MulDivRound(x, num, den) ==
    LET t == (x % den) * num
        q == (x \div den) * num + (t \div den)
        r == t % den
    IN  IF 2 * r < den THEN q
        ELSE IF 2 * r > den THEN q + 1
        ELSE IF q % 2 = 0 THEN q ELSE q + 1

RECURSIVE SumSeq(_)
SumSeq(s) == IF s = <<>> THEN 0 ELSE Head(s) + SumSeq(Tail(s))

Range(s) == {s[k] : k \in DOMAIN s}

RECURSIVE Pow10(_)
Pow10(k) == IF k = 0 THEN 1 ELSE 10 * Pow10(k - 1)

\* f"{n:0{w}d}": the decimal digits of n, zero-padded on the left to width w.
RECURSIVE Pad(_, _)
Pad(n, w) == IF w > 1 /\ n < Pow10(w - 1) THEN "0" \o Pad(n, w - 1) ELSE ToString(n)

None == <<>>
Some(x) == <<x>>

---------------------------------------------------------------------------
(* Reference data. *)

\* FUND_TYPES, lines 12-33: the days between transactions and the AUM range
\* (in millions of dollars).  The returns and volatilities only shift and
\* scale the noise of the daily series, which is an input of the model.
FUND_TYPES ==
    ("Traditional UCITS" :>
        [tx_min |-> 1, tx_max |-> 5, target_aum_min |-> 500, target_aum_max |-> 2000])
    @@ ("Private Equity" :>
        [tx_min |-> 30, tx_max |-> 180, target_aum_min |-> 100, target_aum_max |-> 1000])

FundTypeKeys == DOMAIN FUND_TYPES

\* FUND_ACCOUNTING_CHART_OF_ACCOUNTS flattened in category order (all_accounts,
\* lines 713-715), cut to the first account of the categories Assets,
\* Liabilities, Equity and Income.  An account code is its number.
all_accounts == <<1001, 2001, 3001, 4001>>

\* acc[0].startswith(d) for a digit d: the first of the four digits of the code.
StartsWith(code, d) == code \div 1000 = d

---------------------------------------------------------------------------
(* Master data: generate_master_entities and                               *)
(* generate_master_funds_and_securities.  The records keep the identifiers *)
(* and the links between the entities, and the fields the generators read. *)

DistId(k) == "DIST" \o Pad(k, 3)
RepId(k) == "REP" \o Pad(k, 4)
ShId(k) == "SH" \o Pad(k, 5)
TaId(k) == "TAACC" \o Pad(k, 5)
FundId(k) == "FUND" \o Pad(k, 3)

\* generate_security_id: random.randint(100000, 999999), drawn from its end points.
SecurityNumbers == {100000, 999999}
SecId(n) == "SEC" \o ToString(n)

\* What generate_master_entities draws: the position random.choice picks in
\* entities["distributors"] for each representative (rep_dist) and for each
\* account (acc_dist), and in entities["representatives"] for each account.
EntityDraws(ns, nd, nr) ==
    [rep_dist : [1..nr -> 1..nd], acc_dist : [1..ns -> 1..nd], acc_rep : [1..ns -> 1..nr]]

\* generate_master_entities with each representative linked to the distributor
\* after the one drawn.
generate_master_entities_NextDistributor(ns, nd, nr, dr) ==
    LET distributors == [k \in 1..nd |-> [distributor_id |-> "DIST" \o Pad(k, 3)]]
        representatives ==
            [k \in 1..nr |->
                [representative_id |-> "REP" \o Pad(k, 4),
                 distributor_id |-> "DIST" \o Pad(dr.rep_dist[k] + 1, 3)]]
        shareholders == [k \in 1..ns |-> [shareholder_id |-> "SH" \o Pad(k, 5)]]
        ta_accounts ==
            [k \in 1..ns |->
                [ta_account_id |-> "TAACC" \o Pad(k, 5),
                 shareholder_id |-> shareholders[k].shareholder_id,
                 distributor_id |-> distributors[dr.acc_dist[k]].distributor_id,
                 representative_id |-> representatives[dr.acc_rep[k]].representative_id]]
    IN  [shareholders |-> shareholders, ta_accounts |-> ta_accounts,
         distributors |-> distributors, representatives |-> representatives]

generate_master_entities(ns, nd, nr, dr) ==
    LET distributors == [k \in 1..nd |-> [distributor_id |-> DistId(k)]]
        representatives ==
            [k \in 1..nr |->
                [representative_id |-> RepId(k),
                 distributor_id |-> distributors[dr.rep_dist[k]].distributor_id]]
        shareholders == [k \in 1..ns |-> [shareholder_id |-> ShId(k)]]
        ta_accounts ==
            [k \in 1..ns |->
                [ta_account_id |-> TaId(k),
                 shareholder_id |-> shareholders[k].shareholder_id,
                 distributor_id |-> distributors[dr.acc_dist[k]].distributor_id,
                 representative_id |-> representatives[dr.acc_rep[k]].representative_id]]
    IN  [shareholders |-> shareholders, ta_accounts |-> ta_accounts,
         distributors |-> distributors, representatives |-> representatives]

\* What generate_master_funds_and_securities draws: the type of each fund and
\* the number in the security_id of each security.
FundDraws(nf, nsec) ==
    [fund_type : [1..nf -> FundTypeKeys], sec_no : [1..(nf * nsec) -> SecurityNumbers]]

\* The pair (master_funds, master_securities); security m belongs to fund
\* ((m - 1) \div nsec) + 1, the fund whose inner loop appended it.
generate_master_funds_and_securities(nf, nsec, dr) ==
    LET master_funds ==
            [k \in 1..nf |->
                [fund_id |-> FundId(k),
                 fund_type |-> dr.fund_type[k],
                 target_aum_min |-> FUND_TYPES[dr.fund_type[k]].target_aum_min,
                 target_aum_max |-> FUND_TYPES[dr.fund_type[k]].target_aum_max]]
        master_securities ==
            [m \in 1..(nf * nsec) |->
                [security_id |-> SecId(dr.sec_no[m]),
                 fund_id |-> FundId(((m - 1) \div nsec) + 1)]]
    IN  <<master_funds, master_securities>>

\* MASTER_ENTITIES = {} (line 243): the dict without a key.
NoEntities ==
    [shareholders |-> <<>>, ta_accounts |-> <<>>, distributors |-> <<>>, representatives |-> <<>>]

\* Position k of a list of m elements taken in turn: 1, 2, ..., m, 1, ...
Turn(k, m) == ((k - 1) % m) + 1

\* Samples of the draws of generate_master_entities.  EntityDrawSample: the
\* accounts take the distributors and the representatives in turn, starting
\* from each distributor; EntityDrawOne: the one that starts from the second.
EntityDrawSample(ns, nd, nr) ==
    {[rep_dist |-> [k \in 1..nr |-> Turn(k, nd)],
      acc_dist |-> [k \in 1..ns |-> Turn(k + 1 + r, nd)],
      acc_rep |-> [k \in 1..ns |-> Turn(k + r, nr)]] : r \in 0..(nd - 1)}

EntityDrawOne(ns, nd, nr) ==
    {[rep_dist |-> [k \in 1..nr |-> Turn(k, nd)],
      acc_dist |-> [k \in 1..ns |-> Turn(k + 1, nd)],
      acc_rep |-> [k \in 1..ns |-> Turn(k, nr)]]}

\* The dispatcher's MASTER_SECURITIES_DF['current_price'] = ... (line 870):
\* every row gets the column, with the price drawn for it.
WithCurrentPrice(securities, prices) ==
    [m \in DOMAIN securities |->
        [security_id |-> securities[m].security_id,
         fund_id |-> securities[m].fund_id,
         current_price |-> prices[m]]]

\* random.uniform(10.0, 1000.0) of line 870, in cents.
PriceDraws == {1000, 100000}

\* list(FUND_TYPES.keys()), in the order of the dict.
FundTypeList == <<"Traditional UCITS", "Private Equity">>

\* Samples of the draws of the funds generator.  In all of them the security
\* numbers take the two end points in turn.  FundDrawTypes: every assignment
\* of fund types; FundDrawOne: the fund types in turn.
FundDrawTypes(nf, nsec) ==
    {dr \in FundDraws(nf, nsec) :
        \A m \in 1..(nf * nsec) :
            dr.sec_no[m] = (IF Turn(m, 2) = 1 THEN 100000 ELSE 999999)}

FundDrawOne(nf, nsec) ==
    {dr \in FundDrawTypes(nf, nsec) :
        \A k \in 1..nf : dr.fund_type[k] = FundTypeList[Turn(k, Len(FundTypeList))]}

\* Master data as one dispatcher call leaves it, for the default counts and
\* the draws eds of the entities and fds of the funds and securities.
MasterStates(eds, fds) ==
    {[entities |-> generate_master_entities(NumShareholders, NumDistributors,
                                            NumRepresentatives, ed),
      funds |-> generate_master_funds_and_securities(NumFunds, NumSecuritiesPerFund, fd)[1],
      securities |->
          WithCurrentPrice(
              generate_master_funds_and_securities(NumFunds, NumSecuritiesPerFund, fd)[2],
              [m \in 1..(NumFunds * NumSecuritiesPerFund) |-> 1000])] :
        ed \in eds, fd \in fds}

\* The state outside a dispatcher call: no script run has dispatched.
NoSession ==
    /\ entities_cache = None
    /\ funds_cache = None
    /\ generated_reports_dfs = <<>>
    /\ selected_fund_info = None
    /\ calls = <<>>
    /\ run = 1
    /\ motherduck_token = None
    /\ conn = None
    /\ conn_cache = None
    /\ truncate_all_selected_tables = FALSE
    /\ db = <<>>
    /\ log = <<>>
    /\ failures = 0

---------------------------------------------------------------------------
(* generate_master_entities called with any positive counts and any draws, *)
(* as MASTER_ENTITIES = generate_master_entities(...) of line 859 calls it *)
(* with the default counts; st.cache_resource stores what it returned.     *)

\* The largest count of shareholders, distributors and representatives.
MaxEntities == 2

EntitiesInit ==
    /\ gen = "master_entities" /\ pc = "call" /\ i = 0 /\ j = 0
    /\ loc = <<>>
    /\ data = <<>> /\ n_rows = 0 /\ columns = {} /\ prev_shape = None
    /\ MASTER_ENTITIES = NoEntities
    /\ MASTER_FUNDS_DF = <<>>
    /\ MASTER_SECURITIES_DF = <<>>
    /\ \E ns, nd, nr \in 1..MaxEntities :
          \E dr \in EntityDraws(ns, nd, nr) :
              args = [num_shareholders |-> ns, num_distributors |-> nd,
                      num_representatives |-> nr, draws |-> dr]
    /\ NoSession

\* Lines 113-155 and 859.
EntitiesCall ==
    /\ gen = "master_entities" /\ pc = "call"
    /\ MASTER_ENTITIES' = generate_master_entities(
                              args.num_shareholders, args.num_distributors,
                              args.num_representatives, args.draws)
    /\ entities_cache' = Some(MASTER_ENTITIES')
    /\ pc' = "done"
    /\ UNCHANGED <<gen, args, i, j, loc, data, n_rows, columns, prev_shape,
                   MASTER_FUNDS_DF, MASTER_SECURITIES_DF, funds_cache, sessionVars>>

SpecEntities == EntitiesInit /\ [][EntitiesCall]_vars

---------------------------------------------------------------------------
(* generate_genie_fund_accounting_trial_balance, lines 706-762.            *)
(* loc = [report_date, total_debits, total_credits]; amounts are in cents. *)

\* round(random.uniform(100, 1_000_000), 2), in cents.
TBAmountDraws == {5000000}

TBRow(report_date, fund_info, account_code, is_debit, amount) ==
    [report_date |-> report_date,
     fund_id |-> fund_info.fund_id,
     account_code |-> account_code,
     debit_balance |-> IF is_debit THEN amount ELSE 0,
     credit_balance |-> IF ~is_debit THEN amount ELSE 0]

\* The target picked among all the accounts of the chart.
TBTargets_AnyAccount(diff) == Range(all_accounts)

\* The accounts random.choice picks the target of the adjustment from
\* (lines 749 and 756).
TBTargets(diff) ==
    IF diff > 0
    THEN {acc \in Range(all_accounts) : StartsWith(acc, 3) \/ StartsWith(acc, 2)}
    ELSE {acc \in Range(all_accounts) : StartsWith(acc, 3) \/ StartsWith(acc, 1)}

\* for entry in trial_balance_data: if <code and date match>: ...; break
\* The positions of the first matching entry (none when nothing matches).
TBFirstMatch(rows, account_code, report_date) ==
    {k \in DOMAIN rows :
        /\ rows[k].account_code = account_code /\ rows[k].report_date = report_date
        /\ \A m \in 1..(k - 1) :
              ~(rows[m].account_code = account_code /\ rows[m].report_date = report_date)}

\* TBAdjusted with the residual always put on the credit side.
TBAdjusted_AlwaysCredit(rows, report_date, total_debits, total_credits, target) ==
    LET diff == total_debits - total_credits
    IN  IF total_debits = total_credits THEN rows
        ELSE [k \in DOMAIN rows |->
                IF k \in TBFirstMatch(rows, target, report_date)
                THEN [rows[k] EXCEPT !.credit_balance = @ + Abs(diff)]
                ELSE rows[k]]

\* Lines 745-760: the table after the adjustment for report_date towards target.
TBAdjusted(rows, report_date, total_debits, total_credits, target) ==
    LET diff == total_debits - total_credits
    IN  IF total_debits = total_credits THEN rows
        ELSE [k \in DOMAIN rows |->
                IF k \in TBFirstMatch(rows, target, report_date)
                THEN IF diff > 0
                     THEN [rows[k] EXCEPT !.credit_balance = @ + Abs(diff)]
                     ELSE [rows[k] EXCEPT !.debit_balance = @ + Abs(diff)]
                ELSE rows[k]]

\* Lines 717-722: an iteration of the outer loop starts.
TBDate ==
    /\ gen = "trial_balance" /\ pc = "loop" /\ i < args.num_records
    /\ loc' = [report_date |-> 30 * i, total_debits |-> 0, total_credits |-> 0]
    /\ j' = 1
    /\ pc' = IF Len(all_accounts) = 0 THEN "adjust" ELSE "lines"
    /\ UNCHANGED <<gen, args, i, data, n_rows, columns, prev_shape, masterVars, cacheVars, sessionVars>>

\* Lines 724-742: one line of the chart of accounts.
TBLine ==
    /\ gen = "trial_balance" /\ pc = "lines"
    /\ \E is_debit \in BOOLEAN, amount \in TBAmountDraws :
        LET row == TBRow(loc.report_date, args.fund_info, all_accounts[j], is_debit, amount)
        IN  /\ data' = Append(data, row)
            /\ columns' = columns \cup DOMAIN row
            /\ n_rows' = n_rows + 1
            /\ loc' = [loc EXCEPT !.total_debits = @ + row.debit_balance,
                                  !.total_credits = @ + row.credit_balance]
    /\ j' = j + 1
    /\ pc' = IF j = Len(all_accounts) THEN "adjust" ELSE "lines"
    /\ UNCHANGED <<gen, args, i, prev_shape, masterVars, cacheVars, sessionVars>>

\* Lines 744-760: the adjustment that ends the iteration.
TBAdjust ==
    /\ gen = "trial_balance" /\ pc = "adjust"
    /\ \E target \in TBTargets(loc.total_debits - loc.total_credits) :
        data' = TBAdjusted(data, loc.report_date, loc.total_debits, loc.total_credits, target)
    /\ i' = i + 1
    /\ pc' = "loop"
    /\ UNCHANGED <<gen, args, j, loc, n_rows, columns, prev_shape, masterVars, cacheVars, sessionVars>>

\* Line 762: return pd.DataFrame(trial_balance_data).
TBReturn ==
    /\ gen = "trial_balance" /\ pc = "loop" /\ i = args.num_records
    /\ pc' = "done"
    /\ UNCHANGED <<gen, args, i, j, loc, data, n_rows, columns, prev_shape,
                   masterVars, cacheVars, sessionVars>>

TBInit ==
    /\ gen = "trial_balance" /\ pc = "loop" /\ i = 0 /\ j = 0
    /\ loc = <<>>
    /\ data = <<>> /\ n_rows = 0 /\ columns = {} /\ prev_shape = None
    /\ \E m \in MasterStates(
                    EntityDrawOne(NumShareholders, NumDistributors, NumRepresentatives),
                    FundDrawOne(NumFunds, NumSecuritiesPerFund)) :
        /\ MASTER_ENTITIES = m.entities
        /\ MASTER_FUNDS_DF = m.funds
        /\ MASTER_SECURITIES_DF = m.securities
        /\ \E n \in 0..MaxRecords, f \in Range(m.funds) :
              args = [num_records |-> n, fund_info |-> f]
    /\ NoSession

TBNext == TBDate \/ TBLine \/ TBAdjust \/ TBReturn

SpecTB == TBInit /\ [][TBNext]_vars

\* sum of a column over the rows of one report date.
TBDebits(rows, report_date) ==
    SumSeq([k \in DOMAIN rows |->
              IF rows[k].report_date = report_date THEN rows[k].debit_balance ELSE 0])

TBCredits(rows, report_date) ==
    SumSeq([k \in DOMAIN rows |->
              IF rows[k].report_date = report_date THEN rows[k].credit_balance ELSE 0])

---------------------------------------------------------------------------
(* generate_financial_statements, lines 268-319.                           *)
(* loc = [base_revenue].  base_revenue is in twelfths of a dollar, revenue *)
(* in cents.  The balance sheet is in units of 10 dollars: at the drawn    *)
(* end points every product is a whole number of units, which round(x, 2)  *)
(* leaves as it is.  A fraction p is the pair <<numerator, denominator>>.  *)

\* fund_info.get(key, default) for the two AUM keys, in millions of dollars.
FundMinAum(fund_info) ==
    IF "target_aum_min" \in DOMAIN fund_info THEN fund_info.target_aum_min ELSE 100

FundMaxAum(fund_info) ==
    IF "target_aum_max" \in DOMAIN fund_info THEN fund_info.target_aum_max ELSE 1000

\* random.uniform(min_aum * 0.005, max_aum * 0.015) / 12, line 276: the end
\* points, in twelfths of a dollar (a million dollars times 0.005 is 5000).
BaseRevenueDraws(fund_info) ==
    {FundMinAum(fund_info) * 5000, FundMaxAum(fund_info) * 15000}

\* round(base_revenue * random.uniform(0.8, 1.2), 2), line 281, in cents:
\* base_revenue / 12 * (tenths / 10) * 100.
FSRevenue(base_revenue, tenths) == RoundDiv(base_revenue * tenths * 5, 6)

RevenueFactorDraws == {8, 12}

\* random.uniform(min_aum * 0.9, max_aum * 1.1), line 292, in units of 10 dollars.
BaseAssetsDraws(fund_info) ==
    {FundMinAum(fund_info) * 90000, FundMaxAum(fund_info) * 110000}

\* The fractions the balance sheet draws (lines 293-303), at their end points.
FSDraws(fund_info) ==
    [revenue_factor : RevenueFactorDraws,
     base_assets : BaseAssetsDraws(fund_info),
     cash : {<<5, 100>>, <<15, 100>>},
     accounts_receivable : {<<1, 100>>, <<5, 100>>},
     inventory : {<<5, 1000>>, <<20, 1000>>},
     property_plant_equipment : {<<10, 100>>, <<30, 100>>},
     accounts_payable : {<<1, 100>>, <<4, 100>>},
     short_term_debt : {<<5, 1000>>, <<20, 1000>>},
     long_term_debt : {<<5, 100>>, <<15, 100>>}]

\* round(x * random.uniform(...), 2) for the drawn fraction p.
Part(x, p) == MulDivRound(x, p[1], p[2])

\* FSEquity with the sign of the liabilities slipped.
FSEquity_Plus(total_assets, total_liabilities) == total_assets + total_liabilities

\* current_date = start_date + timedelta(days=i * 30), line 279.
FSReportDate_FromNextMonth(k) == (k + 1) * 30

FSReportDate(k) == k * 30

\* equity = total_assets - total_liabilities, line 306.
FSEquity(total_assets, total_liabilities) == total_assets - total_liabilities

\* Lines 279-318: the row of iteration k for the draws d.
FSRow(k, fund_info, base_revenue, d) ==
    LET cash == Part(d.base_assets, d.cash)
        accounts_receivable == Part(d.base_assets, d.accounts_receivable)
        inventory == Part(d.base_assets, d.inventory)
        total_current_assets == cash + accounts_receivable + inventory
        property_plant_equipment == Part(d.base_assets, d.property_plant_equipment)
        total_assets == total_current_assets + property_plant_equipment
        accounts_payable == Part(total_assets, d.accounts_payable)
        short_term_debt == Part(total_assets, d.short_term_debt)
        total_current_liabilities == accounts_payable + short_term_debt
        long_term_debt == Part(total_assets, d.long_term_debt)
        total_liabilities == total_current_liabilities + long_term_debt
    IN  [fund_id |-> fund_info.fund_id,
         report_date |-> FSReportDate(k),
         revenue |-> FSRevenue(base_revenue, d.revenue_factor),
         cash |-> cash,
         accounts_receivable |-> accounts_receivable,
         inventory |-> inventory,
         total_current_assets |-> total_current_assets,
         property_plant_equipment |-> property_plant_equipment,
         total_assets |-> total_assets,
         accounts_payable |-> accounts_payable,
         short_term_debt |-> short_term_debt,
         total_current_liabilities |-> total_current_liabilities,
         long_term_debt |-> long_term_debt,
         total_liabilities |-> total_liabilities,
         equity |-> FSEquity(total_assets, total_liabilities)]

\* Lines 269-276: the call starts and draws base_revenue.
FSStart ==
    /\ gen = "financial_statements" /\ pc = "start"
    /\ \E b \in BaseRevenueDraws(args.fund_info) : loc' = [base_revenue |-> b]
    /\ pc' = "loop"
    /\ UNCHANGED <<gen, args, i, j, data, n_rows, columns, prev_shape,
                   masterVars, cacheVars, sessionVars>>

\* Lines 278-318: the body of the loop appends the row of iteration i.
FSAppend ==
    /\ gen = "financial_statements" /\ pc = "loop" /\ i < args.num_records
    /\ \E d \in FSDraws(args.fund_info) :
        data' = <<FSRow(i, args.fund_info, loc.base_revenue, d)>>
    /\ columns' = columns \cup DOMAIN data'[Len(data')]
    /\ n_rows' = n_rows + 1
    /\ pc' = "next"
    /\ UNCHANGED <<gen, args, i, j, loc, prev_shape, masterVars, cacheVars, sessionVars>>

\* The loop goes to its next iteration; the row appended is not read again.
FSNextIteration ==
    /\ gen = "financial_statements" /\ pc = "next"
    /\ i' = i + 1
    /\ data' = <<>>
    /\ pc' = "loop"
    /\ UNCHANGED <<gen, args, j, loc, n_rows, columns, prev_shape, masterVars, cacheVars, sessionVars>>

\* Line 319: return pd.DataFrame(data).
FSReturn ==
    /\ gen = "financial_statements" /\ pc = "loop" /\ i = args.num_records
    /\ pc' = "done"
    /\ UNCHANGED <<gen, args, i, j, loc, data, n_rows, columns, prev_shape,
                   masterVars, cacheVars, sessionVars>>

FSInit ==
    /\ gen = "financial_statements" /\ pc = "start" /\ i = 0 /\ j = 0
    /\ loc = <<>>
    /\ data = <<>> /\ n_rows = 0 /\ columns = {} /\ prev_shape = None
    /\ \E m \in MasterStates(
                    EntityDrawOne(NumShareholders, NumDistributors, NumRepresentatives),
                    FundDrawOne(NumFunds, NumSecuritiesPerFund)) :
        /\ MASTER_ENTITIES = m.entities
        /\ MASTER_FUNDS_DF = m.funds
        /\ MASTER_SECURITIES_DF = m.securities
        /\ \E n \in 0..MaxRecords, f \in Range(m.funds) :
              args = [num_records |-> n, fund_info |-> f]
    /\ NoSession

FSNext == FSStart \/ FSAppend \/ FSNextIteration \/ FSReturn

SpecFS == FSInit /\ [][FSNext]_vars

\* C2: every row of a financial-statement table has total_assets =
\* total_current_assets + property_plant_equipment and total_liabilities +
\* equity = total_assets.
C2_BalanceSheetIdentities ==
    gen = "financial_statements" =>
        \A k \in DOMAIN data :
            /\ data[k].total_assets =
                   data[k].total_current_assets + data[k].property_plant_equipment
            /\ data[k].total_liabilities + data[k].equity = data[k].total_assets

\* The second row of a table, with liabilities of every kind.
C2_Witness ==
    /\ gen = "financial_statements" /\ n_rows = 2 /\ data # <<>>
    /\ data[1].long_term_debt > 0 /\ data[1].accounts_payable > 0
    /\ data[1].equity > 0

\* The range of C7 for a fund, in cents: 0.8 * 0.005 * min_aum / 12 is a
\* third of RevenueLow3, 1.2 * 0.015 * max_aum / 12 is RevenueHigh.
RevenueLow3(fund_info) == FundMinAum(fund_info) * 100000
RevenueHigh(fund_info) == FundMaxAum(fund_info) * 150000

\* C7 as stated: the call returns exactly num_records rows, row k (0-based)
\* is dated 30 * k days after 2023-01-01, and every revenue lies in
\* [0.8 * 0.005 * min_aum / 12, 1.2 * 0.015 * max_aum / 12].
C7_RevenueInRange ==
    gen = "financial_statements" =>
        /\ pc = "done" => n_rows = args.num_records
        /\ \A k \in DOMAIN data :
            /\ data[k].report_date = 30 * (n_rows - 1)
            /\ 3 * data[k].revenue >= RevenueLow3(args.fund_info)
            /\ data[k].revenue <= RevenueHigh(args.fund_info)

\* C7 as amended: the same, with revenue, which is rounded to two decimals,
\* at most half a cent outside the range.
C7_RevenueInRoundedRange ==
    gen = "financial_statements" =>
        /\ pc = "done" => n_rows = args.num_records
        /\ \A k \in DOMAIN data :
            /\ data[k].report_date = 30 * (n_rows - 1)
            /\ 3 * (2 * data[k].revenue + 1) >= 2 * RevenueLow3(args.fund_info)
            /\ 2 * data[k].revenue - 1 <= 2 * RevenueHigh(args.fund_info)

\* The second row of a table for a fund with the AUM range (100, 1000)
\* million, its revenue at the upper end of the range.
C7_Witness ==
    /\ gen = "financial_statements" /\ n_rows = 2 /\ data # <<>>
    /\ args.fund_info.target_aum_min = 100 /\ args.fund_info.target_aum_max = 1000
    /\ data[1].report_date = 30
    /\ data[1].revenue = RevenueHigh(args.fund_info)

---------------------------------------------------------------------------
(* The daily series: generate_genie_daily_security_prices (558-605),       *)
(* generate_genie_fund_daily_nav (615-659), generate_genie_fx_rates        *)
(* (819-848).  Prices are in cents, NAV per share and exchange rates in    *)
(* ten-thousandths, the change factors in thousandths.                     *)

\* The rows of a table whose fund (column fund_id) has the type of the
\* filter; every row when the filter is None or empty (lines 561-563, 618-619).
OfFundType(rows, fund_type_filter) ==
    IF fund_type_filter = None THEN rows
    ELSE SelectSeq(rows,
             LAMBDA r : \E f \in Range(MASTER_FUNDS_DF) :
                           f.fund_id = r.fund_id /\ f.fund_type = fund_type_filter[1])

\* {row[key]: d for row in rows}: a dict comprehension; of two rows with the
\* same key the later one sets the value.  d[k] is the value drawn for row k.
DictOf(rows, key, d) ==
    [id \in {rows[k][key] : k \in DOMAIN rows} |->
        d[CHOOSE k \in DOMAIN rows :
              /\ rows[k][key] = id
              /\ \A m \in DOMAIN rows : rows[m][key] = id => m <= k]]

\* 1 + avg_daily_return + random.gauss(0, daily_vol), lines 590 and 641: the
\* normal distribution has every real in its support, so the factor can be
\* negative, zero, a collapse or a usual daily move.
ChangeFactorDraws == {-1000, 0, 400, 1010}

\* random.uniform(10.0, 1000.0), line 573, and random.uniform(50.0, 150.0),
\* line 627.
InitialPriceDraws == {1000, 100000}
InitialNavDraws == {500000}
\* random.uniform(1_000_000, 10_000_000), line 628, and 1000 * share_change_pct
\* for random.uniform(-0.001, 0.001), line 645.
InitialSharesDraws == {1000000}
ShareChangeDraws == {-1, 1}

\* The clamp that lets a zero step result through.
Floored_NegativeOnly(value, floor) == IF value < 0 THEN floor ELSE value

\* if new_price < 0.01: new_price = 0.01 (lines 592, 643, 647).
Floored(value, floor) == IF value < floor THEN floor ELSE value

PricesStart ==
    /\ gen = "daily_security_prices" /\ pc = "start"
    /\ LET rows == OfFundType(MASTER_SECURITIES_DF, args.fund_type_filter)
       IN  IF rows = <<>>
           THEN pc' = "done" /\ loc' = loc
           ELSE /\ pc' = "loop"
                /\ \E d \in [DOMAIN rows -> InitialPriceDraws] :
                     loc' = [rows |-> rows,
                             current_prices_for_simulation |-> DictOf(rows, "security_id", d)]
    /\ UNCHANGED <<gen, args, i, j, data, n_rows, columns, prev_shape, masterVars, cacheVars, sessionVars>>

\* for i in range(num_days), line 575.
PricesDay ==
    /\ gen = "daily_security_prices" /\ pc = "loop" /\ i < args.num_days
    /\ pc' = "rows" /\ j' = 1 /\ data' = <<>>
    /\ UNCHANGED <<gen, args, i, loc, n_rows, columns, prev_shape, masterVars, cacheVars, sessionVars>>

\* Lines 577-603: the price of one security on day i.
PricesRow ==
    /\ gen = "daily_security_prices" /\ pc = "rows"
    /\ \E price_change_factor \in ChangeFactorDraws :
        LET security_info == loc.rows[j]
            current_price == loc.current_prices_for_simulation[security_info.security_id]
            new_price == Floored(RoundDiv(current_price * price_change_factor, 1000), 1)
        IN  /\ data' = Append(data, [price_date |-> i,
                                     security_id |-> security_info.security_id,
                                     closing_price |-> new_price,
                                     fund_id |-> security_info.fund_id])
            /\ loc' = [loc EXCEPT
                         !.current_prices_for_simulation[security_info.security_id] = new_price]
    /\ columns' = columns \cup DOMAIN data'[Len(data')]
    /\ n_rows' = n_rows + 1
    /\ IF j = Len(loc.rows)
       THEN i' = i + 1 /\ pc' = "loop" /\ j' = j
       ELSE i' = i /\ pc' = "rows" /\ j' = j + 1
    /\ UNCHANGED <<gen, args, prev_shape, masterVars, cacheVars, sessionVars>>

\* Line 605.
PricesReturn ==
    /\ gen = "daily_security_prices" /\ pc = "loop" /\ i = args.num_days
    /\ pc' = "done"
    /\ UNCHANGED <<gen, args, i, j, loc, data, n_rows, columns, prev_shape,
                   masterVars, cacheVars, sessionVars>>

NavStart ==
    /\ gen = "fund_daily_nav" /\ pc = "start"
    /\ LET rows == OfFundType(MASTER_FUNDS_DF, args.fund_type_filter)
       IN  IF rows = <<>>
           THEN pc' = "done" /\ loc' = loc
           ELSE /\ pc' = "loop"
                /\ \E d \in [DOMAIN rows -> InitialNavDraws],
                      e \in [DOMAIN rows -> InitialSharesDraws] :
                     loc' = [rows |-> rows,
                             initial_navs_per_share |-> DictOf(rows, "fund_id", d),
                             initial_total_shares |-> DictOf(rows, "fund_id", e)]
    /\ UNCHANGED <<gen, args, i, j, data, n_rows, columns, prev_shape, masterVars, cacheVars, sessionVars>>

\* for i in range(num_days), line 630.
NavDay ==
    /\ gen = "fund_daily_nav" /\ pc = "loop" /\ i < args.num_days
    /\ pc' = "rows" /\ j' = 1 /\ data' = <<>>
    /\ UNCHANGED <<gen, args, i, loc, n_rows, columns, prev_shape, masterVars, cacheVars, sessionVars>>

\* Lines 632-657: the NAV of one fund on day i.  total_nav (line 649) is
\* beyond 32-bit integers and is left out of the row; nothing is computed
\* from it.
NavRow ==
    /\ gen = "fund_daily_nav" /\ pc = "rows"
    /\ \E nav_change_factor \in ChangeFactorDraws, share_change \in ShareChangeDraws :
        LET fund_id == loc.rows[j].fund_id
            new_nav_per_share ==
                Floored(RoundDiv(loc.initial_navs_per_share[fund_id] * nav_change_factor, 1000),
                        100)
            new_total_shares ==
                Floored(RoundDiv(loc.initial_total_shares[fund_id] * (1000 + share_change), 1000),
                        10000)
        IN  /\ data' = Append(data, [nav_date |-> i,
                                     fund_id |-> fund_id,
                                     nav_per_share |-> new_nav_per_share,
                                     total_shares_outstanding |-> new_total_shares])
            /\ loc' = [loc EXCEPT !.initial_navs_per_share[fund_id] = new_nav_per_share,
                                  !.initial_total_shares[fund_id] = new_total_shares]
    /\ columns' = columns \cup DOMAIN data'[Len(data')]
    /\ n_rows' = n_rows + 1
    /\ IF j = Len(loc.rows)
       THEN i' = i + 1 /\ pc' = "loop" /\ j' = j
       ELSE i' = i /\ pc' = "rows" /\ j' = j + 1
    /\ UNCHANGED <<gen, args, prev_shape, masterVars, cacheVars, sessionVars>>

\* Line 659.
NavReturn ==
    /\ gen = "fund_daily_nav" /\ pc = "loop" /\ i = args.num_days
    /\ pc' = "done"
    /\ UNCHANGED <<gen, args, i, j, loc, data, n_rows, columns, prev_shape,
                   masterVars, cacheVars, sessionVars>>

\* currency_pairs, lines 824-827, cut to two of its eight pairs.
currency_pairs == << <<"USD", "EUR">>, <<"GBP", "USD">> >>

\* random.uniform(0.7, 1.5), line 830, and 1 + random.uniform(-0.005, 0.005),
\* line 836.
InitialRateDraws == {7000, 15000}
DailyChangeDraws == {995, 1005}

\* if new_rate <= 0: new_rate = 0.0001, line 838.
FxFloored(new_rate) == IF new_rate <= 0 THEN 1 ELSE new_rate

\* Lines 820-830.
FxStart ==
    /\ gen = "fx_rates" /\ pc = "start"
    /\ pc' = "loop"
    /\ \E d \in [Range(currency_pairs) -> InitialRateDraws] : loc' = [current_rates |-> d]
    /\ UNCHANGED <<gen, args, i, j, data, n_rows, columns, prev_shape, masterVars, cacheVars, sessionVars>>

\* for i in range(num_days), line 832.
FxDay ==
    /\ gen = "fx_rates" /\ pc = "loop" /\ i < args.num_days
    /\ pc' = "rows" /\ j' = 1 /\ data' = <<>>
    /\ UNCHANGED <<gen, args, i, loc, n_rows, columns, prev_shape, masterVars, cacheVars, sessionVars>>

\* Lines 834-846: the rate of one currency pair on day i.
FxRow ==
    /\ gen = "fx_rates" /\ pc = "rows"
    /\ \E daily_change_factor \in DailyChangeDraws :
        LET pair == currency_pairs[j]
            new_rate == FxFloored(RoundDiv(loc.current_rates[pair] * daily_change_factor, 1000))
        IN  /\ data' = Append(data, [rate_date |-> i,
                                     base_currency |-> pair[1],
                                     quote_currency |-> pair[2],
                                     exchange_rate |-> new_rate])
            /\ loc' = [loc EXCEPT !.current_rates[pair] = new_rate]
    /\ columns' = columns \cup DOMAIN data'[Len(data')]
    /\ n_rows' = n_rows + 1
    /\ IF j = Len(currency_pairs)
       THEN i' = i + 1 /\ pc' = "loop" /\ j' = j
       ELSE i' = i /\ pc' = "rows" /\ j' = j + 1
    /\ UNCHANGED <<gen, args, prev_shape, masterVars, cacheVars, sessionVars>>

\* Line 848.
FxReturn ==
    /\ gen = "fx_rates" /\ pc = "loop" /\ i = args.num_days
    /\ pc' = "done"
    /\ UNCHANGED <<gen, args, i, j, loc, data, n_rows, columns, prev_shape,
                   masterVars, cacheVars, sessionVars>>

\* A call of one of the three generators, with master data in place.
SeriesInit ==
    /\ pc = "start" /\ i = 0 /\ j = 0 /\ loc = <<>>
    /\ data = <<>> /\ n_rows = 0 /\ columns = {} /\ prev_shape = None
    /\ \E m \in MasterStates(
                    EntityDrawOne(NumShareholders, NumDistributors, NumRepresentatives),
                    FundDrawOne(NumFunds, NumSecuritiesPerFund)) :
        /\ MASTER_ENTITIES = m.entities
        /\ MASTER_FUNDS_DF = m.funds
        /\ MASTER_SECURITIES_DF = m.securities
    /\ \E n \in 0..MaxRecords :
        \/ /\ gen \in {"daily_security_prices", "fund_daily_nav"}
           /\ \E t \in {None} \cup {Some(k) : k \in FundTypeKeys} :
                 args = [num_days |-> n, fund_type_filter |-> t]
        \/ /\ gen = "fx_rates"
           /\ args = [num_days |-> n]
    /\ NoSession

SeriesNext ==
    \/ PricesStart \/ PricesDay \/ PricesRow \/ PricesReturn
    \/ NavStart \/ NavDay \/ NavRow \/ NavReturn
    \/ FxStart \/ FxDay \/ FxRow \/ FxReturn

SpecSeries == SeriesInit /\ [][SeriesNext]_vars

\* A call of one of the three generators on a universe whose security ids
\* are any draws of generate_security_id (lines 51-52, 225), equal ones
\* included: random.randint can return the same number twice.
AnyIdInit ==
    /\ pc = "start" /\ i = 0 /\ j = 0 /\ loc = <<>>
    /\ data = <<>> /\ n_rows = 0 /\ columns = {} /\ prev_shape = None
    /\ \E m \in MasterStates(
                    EntityDrawOne(NumShareholders, NumDistributors, NumRepresentatives),
                    {dr \in FundDraws(NumFunds, NumSecuritiesPerFund) :
                        dr.fund_type \in {fd.fund_type :
                                            fd \in FundDrawOne(NumFunds, NumSecuritiesPerFund)}}) :
        /\ MASTER_ENTITIES = m.entities
        /\ MASTER_FUNDS_DF = m.funds
        /\ MASTER_SECURITIES_DF = m.securities
    /\ \E n \in 0..MaxRecords :
        \/ /\ gen \in {"daily_security_prices", "fund_daily_nav"}
           /\ \E t \in {None} \cup {Some(k) : k \in FundTypeKeys} :
                 args = [num_days |-> n, fund_type_filter |-> t]
        \/ /\ gen = "fx_rates"
           /\ args = [num_days |-> n]
    /\ NoSession

SpecAnyId == AnyIdInit /\ [][SeriesNext]_vars

\* C3: in the three daily series every recorded value is greater than 0
\* and not below its floor (0.01 for closing_price and nav_per_share,
\* 0.0001 for exchange_rate), and the recorded value is the one carried to
\* the next day: the generator's current value of an entity is the value of
\* the last row recorded for it.
C3_SeriesAboveFloor ==
    /\ gen = "daily_security_prices" =>
        \A k \in DOMAIN data :
            /\ data[k].closing_price > 0 /\ data[k].closing_price >= 1
            /\ (\A m \in DOMAIN data : data[m].security_id = data[k].security_id => m <= k)
                   => loc.current_prices_for_simulation[data[k].security_id]
                          = data[k].closing_price
    /\ gen = "fund_daily_nav" =>
        \A k \in DOMAIN data :
            /\ data[k].nav_per_share > 0 /\ data[k].nav_per_share >= 100
            /\ loc.initial_navs_per_share[data[k].fund_id] = data[k].nav_per_share
    /\ gen = "fx_rates" =>
        \A k \in DOMAIN data :
            /\ data[k].exchange_rate > 0 /\ data[k].exchange_rate >= 1
            /\ loc.current_rates[<<data[k].base_currency, data[k].quote_currency>>]
                   = data[k].exchange_rate

\* The second day of a price table is complete: one security sits on the
\* floor, another has moved normally.
C3_Witness ==
    /\ gen = "daily_security_prices" /\ pc = "loop" /\ i = 2
    /\ \E k \in DOMAIN data : data[k].price_date = 1 /\ data[k].closing_price = 1
    /\ \E k \in DOMAIN data : data[k].price_date = 1 /\ data[k].closing_price > 1000

---------------------------------------------------------------------------
(* generate_securities_transactions, lines 321-364.                        *)
(* loc = [fund_info, current_date]; quantity is in ten-thousandths of a    *)
(* share, the amounts are in cents.                                        *)

\* A sample that never looks at the filter.
get_random_fund_info_Unfiltered(fund_type_filter) == Range(MASTER_FUNDS_DF)

\* get_random_fund_info, lines 251-257: the funds sample(1) can return; none
\* when MASTER_FUNDS_DF is empty, where sample raises.
get_random_fund_info(fund_type_filter) ==
    LET filtered_funds == OfFundType(MASTER_FUNDS_DF, fund_type_filter)
    IN  IF fund_type_filter # None /\ filtered_funds # <<>>
        THEN Range(filtered_funds)
        ELSE Range(MASTER_FUNDS_DF)

\* The fund a generator works for: the one passed, or a sampled one.
FundInfoChoices(a) ==
    IF a.fund_info # None THEN {a.fund_info[1]} ELSE get_random_fund_info(a.fund_type_filter)

\* The draws with a transaction that can fall on the day of the one before.
TxnDraws_SameDay(fund_type) ==
    [days : {0, FUND_TYPES[fund_type].tx_max},
     transaction_type : {"SUBSCRIPTION", "REDEMPTION", "SWITCH_IN", "SWITCH_OUT",
                         "DIVIDEND_REINVEST", "DIVIDEND_PAYOUT"},
     quantity : {100000},
     price_per_share : {1000, 50000},
     fee_rate : {1, 10},
     ta_account_info : Range(MASTER_ENTITIES.ta_accounts),
     settlement_days : {1, 3}]

\* The values drawn for one transaction: days since the previous one,
\* transaction_type, quantity, price_per_share, the fee rate (in
\* ten-thousandths), the account, the days to settlement.
TxnDraws(fund_type) ==
    [days : {FUND_TYPES[fund_type].tx_min, FUND_TYPES[fund_type].tx_max},
     transaction_type : {"SUBSCRIPTION", "REDEMPTION", "SWITCH_IN", "SWITCH_OUT",
                         "DIVIDEND_REINVEST", "DIVIDEND_PAYOUT"},
     quantity : {100000},
     price_per_share : {1000, 50000},
     fee_rate : {1, 10},
     ta_account_info : Range(MASTER_ENTITIES.ta_accounts),
     settlement_days : {1, 3}]

\* The linkage with the distributor taken from the account's representative.
AccountLinkage_ViaRepresentative(ta_account_info) ==
    [ta_account_id |-> ta_account_info.ta_account_id,
     shareholder_id |-> ta_account_info.shareholder_id,
     distributor_id |->
         (CHOOSE r \in Range(MASTER_ENTITIES.representatives) :
              r.representative_id = ta_account_info.representative_id).distributor_id,
     representative_id |-> ta_account_info.representative_id]

\* The columns a row copies from the account drawn for it (lines 358-360,
\* 423-425).
AccountLinkage(ta_account_info) ==
    [ta_account_id |-> ta_account_info.ta_account_id,
     shareholder_id |-> ta_account_info.shareholder_id,
     distributor_id |-> ta_account_info.distributor_id,
     representative_id |-> ta_account_info.representative_id]

\* The fee deducted whatever the direction.
net_amount_FeeDeducted(transaction_type, gross_amount, transaction_fee) ==
    gross_amount - transaction_fee

\* Lines 346-350.  The two amounts are whole cents, and so is the result.
net_amount(transaction_type, gross_amount, transaction_fee) ==
    IF transaction_type \in {"SUBSCRIPTION", "SWITCH_IN", "DIVIDEND_REINVEST"}
    THEN gross_amount - transaction_fee
    ELSE IF transaction_type \in {"REDEMPTION", "SWITCH_OUT", "DIVIDEND_PAYOUT"}
    THEN gross_amount + transaction_fee
    ELSE gross_amount

\* Lines 336-363: the row of iteration k, dated current_date.
TxnRow(k, fund_info, current_date, d) ==
    LET gross_amount == MulDivRound(d.quantity, d.price_per_share, 10000)
        transaction_fee == MulDivRound(gross_amount, d.fee_rate, 10000)
    IN  [transaction_id |-> "TRN" \o Pad(k + 1, 5),
         fund_id |-> fund_info.fund_id,
         fund_type |-> fund_info.fund_type,
         transaction_date |-> current_date,
         transaction_type |-> d.transaction_type,
         quantity |-> d.quantity,
         price_per_share |-> d.price_per_share,
         gross_amount |-> gross_amount,
         net_amount |-> net_amount(d.transaction_type, gross_amount, transaction_fee),
         transaction_fee |-> transaction_fee,
         settlement_date |-> current_date + d.settlement_days]
        @@ AccountLinkage(d.ta_account_info)

\* Lines 322-333.  FUND_TYPES.get(fund_type_filter, {}) is the empty dict for
\* an absent or unknown filter and the subscript of line 324 then raises
\* KeyError; sampling a fund from an empty MASTER_FUNDS_DF raises as well.
TxnStart ==
    /\ gen = "securities_transactions" /\ pc = "start"
    /\ IF \/ args.fund_type_filter = None
          \/ args.fund_type_filter[1] \notin FundTypeKeys
          \/ FundInfoChoices(args) = {}
       THEN pc' = "raised" /\ loc' = loc
       ELSE /\ pc' = "loop"
            /\ \E f \in FundInfoChoices(args) : loc' = [fund_info |-> f, current_date |-> 0]
    /\ UNCHANGED <<gen, args, i, j, data, n_rows, columns, prev_shape,
                   masterVars, cacheVars, sessionVars>>

\* Lines 335-363: the body of the loop appends the row of iteration i.
\* random.choice of line 249 raises on an empty list of accounts.
TxnAppend ==
    /\ gen = "securities_transactions" /\ pc = "loop" /\ i < args.num_transactions
    /\ IF MASTER_ENTITIES.ta_accounts = <<>>
       THEN pc' = "raised" /\ UNCHANGED <<loc, data, n_rows, columns>>
       ELSE /\ pc' = "next"
            /\ \E d \in TxnDraws(args.fund_type_filter[1]) :
                /\ loc' = [loc EXCEPT !.current_date = @ + d.days]
                /\ data' = <<TxnRow(i, loc.fund_info, loc.current_date + d.days, d)>>
            /\ columns' = columns \cup DOMAIN data'[1]
            /\ n_rows' = n_rows + 1
    /\ UNCHANGED <<gen, args, i, j, prev_shape, masterVars, cacheVars, sessionVars>>

\* The loop goes to its next iteration; the row appended is not read again.
TxnNextIteration ==
    /\ gen = "securities_transactions" /\ pc = "next"
    /\ i' = i + 1
    /\ data' = <<>>
    /\ pc' = "loop"
    /\ UNCHANGED <<gen, args, j, loc, n_rows, columns, prev_shape,
                   masterVars, cacheVars, sessionVars>>

\* Line 364.
TxnReturn ==
    /\ gen = "securities_transactions" /\ pc = "loop" /\ i = args.num_transactions
    /\ pc' = "done"
    /\ UNCHANGED <<gen, args, i, j, loc, data, n_rows, columns, prev_shape,
                   masterVars, cacheVars, sessionVars>>

\* The fund-type filters a caller passes: none, a configured type, or a
\* name FUND_TYPES does not have.
FilterChoices == {None, Some("Hedge Fund")} \cup {Some(k) : k \in FundTypeKeys}

TxnInit ==
    /\ gen = "securities_transactions"
    /\ pc = "start" /\ i = 0 /\ j = 0 /\ loc = <<>>
    /\ data = <<>> /\ n_rows = 0 /\ columns = {} /\ prev_shape = None
    /\ \E m \in MasterStates(
                    EntityDrawSample(NumShareholders, NumDistributors, NumRepresentatives),
                    FundDrawOne(NumFunds, NumSecuritiesPerFund)) :
        /\ MASTER_ENTITIES = m.entities
        /\ MASTER_FUNDS_DF = m.funds
        /\ MASTER_SECURITIES_DF = m.securities
        /\ \E n \in 0..MaxRecords, t \in FilterChoices,
              f \in {None} \cup {Some(r) : r \in Range(m.funds)} :
              args = [num_transactions |-> n, fund_type_filter |-> t, fund_info |-> f]
    /\ NoSession

TxnNext == TxnStart \/ TxnAppend \/ TxnNextIteration \/ TxnReturn

SpecTxn == TxnInit /\ [][TxnNext]_vars

\* C4: the ta_account_id of every transaction row names an account of the
\* master entity set, and the row's shareholder_id, distributor_id and
\* representative_id are the ones stored on that account.
C4_TransactionLinkage ==
    gen = "securities_transactions" =>
        \A k \in DOMAIN data :
            /\ \E a \in Range(MASTER_ENTITIES.ta_accounts) :
                 a.ta_account_id = data[k].ta_account_id
            /\ \A a \in Range(MASTER_ENTITIES.ta_accounts) :
                 a.ta_account_id = data[k].ta_account_id =>
                    /\ a.shareholder_id = data[k].shareholder_id
                    /\ a.distributor_id = data[k].distributor_id
                    /\ a.representative_id = data[k].representative_id

\* The second transaction of a table is for the second account, whose
\* distributor is not the first one.
C4_Witness ==
    /\ gen = "securities_transactions" /\ n_rows = 2 /\ data # <<>>
    /\ data[1].ta_account_id = TaId(2)
    /\ data[1].distributor_id # DistId(1)

---------------------------------------------------------------------------
(* generate_cash_net_activity, lines 407-428, and                          *)
(* generate_genie_corporate_actions, lines 765-817.  Neither reads back a  *)
(* row: data holds the last row appended.                                  *)

\* Lines 408-411.
CashStart ==
    /\ gen = "cash_net_activity" /\ pc = "start"
    /\ IF FundInfoChoices(args) = {}
       THEN pc' = "raised" /\ loc' = loc
       ELSE pc' = "loop" /\ \E f \in FundInfoChoices(args) : loc' = [fund_info |-> f]
    /\ UNCHANGED <<gen, args, i, j, data, n_rows, columns, prev_shape,
                   masterVars, cacheVars, sessionVars>>

\* Lines 413-427: iteration i.  "In" in activity_type holds for
\* "Subscription Cash In" alone; the amount is in cents.
CashAppend ==
    /\ gen = "cash_net_activity" /\ pc = "loop" /\ i < args.num_records
    /\ IF MASTER_ENTITIES.ta_accounts = <<>>
       THEN pc' = "raised" /\ UNCHANGED <<i, data, n_rows, columns>>
       ELSE /\ \E days \in {1, 365}, ta_account_info \in Range(MASTER_ENTITIES.ta_accounts),
                  activity_type \in {"Subscription Cash In", "Redemption Cash Out",
                                     "Dividend Payment", "Fee Payment", "Other Adjustment"},
                  amount \in {10000, 5000000} :
                data' = << [activity_id |-> "CASHACT" \o Pad(i + 1, 5),
                            fund_id |-> loc.fund_info.fund_id,
                            fund_type |-> loc.fund_info.fund_type,
                            activity_date |-> days,
                            activity_type |-> activity_type,
                            amount |-> IF activity_type = "Subscription Cash In"
                                       THEN amount ELSE -amount]
                           @@ AccountLinkage(ta_account_info) >>
            /\ columns' = columns \cup DOMAIN data'[1]
            /\ n_rows' = n_rows + 1
            /\ i' = i + 1
            /\ pc' = "loop"
    /\ UNCHANGED <<gen, args, j, loc, prev_shape, masterVars, cacheVars, sessionVars>>

\* Line 428.
CashReturn ==
    /\ gen = "cash_net_activity" /\ pc = "loop" /\ i = args.num_records
    /\ pc' = "done"
    /\ UNCHANGED <<gen, args, i, j, loc, data, n_rows, columns, prev_shape,
                   masterVars, cacheVars, sessionVars>>

\* The row with the currency key set only for a dividend.
CARow_CurrencyWhenSet(k, sec_info, ca_type, announcement_date, ratio_or_amount) ==
    LET row == [ca_id |-> "CA" \o Pad(k + 1, 5),
                fund_id |-> sec_info.fund_id,
                security_id |-> sec_info.security_id,
                ca_type |-> ca_type,
                announcement_date |-> announcement_date,
                ratio_or_amount |-> ratio_or_amount]
    IN  IF ca_type = "DIVIDEND" THEN row @@ [currency |-> Some("currency")] ELSE row

\* Lines 803-816: the dict appended.  ratio_or_amount is the value as a string;
\* currency is sec_info["currency"] for a dividend and None otherwise.
CARow(k, sec_info, ca_type, announcement_date, ratio_or_amount) ==
    [ca_id |-> "CA" \o Pad(k + 1, 5),
     fund_id |-> sec_info.fund_id,
     security_id |-> sec_info.security_id,
     ca_type |-> ca_type,
     announcement_date |-> announcement_date,
     ratio_or_amount |-> ratio_or_amount,
     currency |-> IF ca_type = "DIVIDEND" THEN Some("currency") ELSE None]

\* ratio_or_amount by ca_type, lines 793-801.
CARatios(ca_type) ==
    IF ca_type = "DIVIDEND" THEN {"0.1", "5.0"}
    ELSE IF ca_type = "STOCK_SPLIT" THEN {"2 FOR 1", "3 FOR 1"}
    ELSE {"Acquirer: A Corp."}

\* Lines 766-779.
CAStart ==
    /\ gen = "corporate_actions" /\ pc = "start"
    /\ LET securities_for_ca == OfFundType(MASTER_SECURITIES_DF, args.fund_type_filter)
       IN  IF securities_for_ca = <<>>
           THEN pc' = "done" /\ loc' = loc
           ELSE pc' = "loop" /\ loc' = [securities_for_ca |-> securities_for_ca]
    /\ UNCHANGED <<gen, args, i, j, data, n_rows, columns, prev_shape,
                   masterVars, cacheVars, sessionVars>>

\* Lines 781-816: iteration i.
CAAppend ==
    /\ gen = "corporate_actions" /\ pc = "loop" /\ i < args.num_cas
    /\ \E sec_info \in Range(loc.securities_for_ca),
          ca_type \in {"DIVIDEND", "STOCK_SPLIT", "MERGER"}, days \in {1, 365} :
        \E ratio_or_amount \in CARatios(ca_type) :
            data' = <<CARow(i, sec_info, ca_type, days, ratio_or_amount)>>
    /\ columns' = columns \cup DOMAIN data'[1]
    /\ n_rows' = n_rows + 1
    /\ i' = i + 1
    /\ UNCHANGED <<gen, pc, args, j, loc, prev_shape, masterVars, cacheVars, sessionVars>>

\* Line 817.
CAReturn ==
    /\ gen = "corporate_actions" /\ pc = "loop" /\ i = args.num_cas
    /\ pc' = "done"
    /\ UNCHANGED <<gen, args, i, j, loc, data, n_rows, columns, prev_shape,
                   masterVars, cacheVars, sessionVars>>

---------------------------------------------------------------------------
(* The snapshot and the securities-based generators (lines 366-405,        *)
(* 430-556, 607-613, 662-704).  data holds the row appended last.         *)

\* A sample that can take a row more than once.
Sample_WithReplacement(rows, k) ==
    {[m \in 1..k |-> rows[p[m]]] : p \in [1..k -> DOMAIN rows]}

\* random.sample(population, k) (line 381) and DataFrame.sample(k)
\* (line 678): k rows at distinct positions, in any order.
Sample(rows, k) ==
    {[m \in 1..k |-> rows[p[m]]] :
        p \in {q \in [1..k -> DOMAIN rows] :
                  \A a, b \in 1..k : a # b => q[a] # q[b]}}

\* MASTER_SECURITIES_DF[MASTER_SECURITIES_DF['fund_id'] == fund_info['fund_id']]
\* (lines 436, 495, 528, 672).
SecuritiesForFund(fund_info) ==
    SelectSeq(MASTER_SECURITIES_DF, LAMBDA r : r.fund_id = fund_info.fund_id)

\* Lines 367-381.  The fund is the one passed or a sampled one; the accounts
\* are sampled without replacement, at most as many as there are.
\* MASTER_ENTITIES["ta_accounts"] raises on the dict of line 243.
PortfolioStart ==
    /\ gen = "portfolio_data" /\ pc = "start"
    /\ IF FundInfoChoices(args) = {} \/ MASTER_ENTITIES = NoEntities
       THEN pc' = "raised" /\ loc' = loc
       ELSE /\ pc' = "loop"
            /\ \E f \in FundInfoChoices(args),
                  s \in Sample(MASTER_ENTITIES.ta_accounts,
                               Min(args.num_securities_in_portfolio,
                                   Len(MASTER_ENTITIES.ta_accounts))) :
                 loc' = [fund_info |-> f, unique_ta_accounts_in_scope |-> s]
    /\ UNCHANGED <<gen, args, i, j, data, n_rows, columns, prev_shape,
                   masterVars, cacheVars, sessionVars>>

\* Lines 383-404: the holding of account i of the sample.  Prices are in
\* cents, the factor in thousandths; the date of the snapshot, the quantity
\* and the amounts derived from it are left out of the row.
PortfolioAppend ==
    /\ gen = "portfolio_data" /\ pc = "loop"
    /\ i < Len(loc.unique_ta_accounts_in_scope)
    /\ \E cost_basis_per_share \in {1000, 40000}, f \in ChangeFactorDraws :
        data' = << [fund_id |-> loc.fund_info.fund_id,
                    fund_type |-> loc.fund_info.fund_type,
                    asset_class |-> "Fund Share",
                    cost_basis_per_share |-> cost_basis_per_share,
                    current_nav_per_share |->
                        Floored(MulDivRound(cost_basis_per_share, f, 1000), 1)]
                   @@ AccountLinkage(loc.unique_ta_accounts_in_scope[i + 1]) >>
    /\ columns' = columns \cup DOMAIN data'[1]
    /\ n_rows' = n_rows + 1
    /\ i' = i + 1
    /\ UNCHANGED <<gen, pc, args, j, loc, prev_shape, masterVars, cacheVars, sessionVars>>

\* Line 405.
PortfolioReturn ==
    /\ gen = "portfolio_data" /\ pc = "loop"
    /\ i = Len(loc.unique_ta_accounts_in_scope)
    /\ pc' = "done"
    /\ UNCHANGED <<gen, args, i, j, loc, data, n_rows, columns, prev_shape,
                   masterVars, cacheVars, sessionVars>>

\* Lines 431-439, 490-498, 523-531: the fund, then its securities; without
\* any the empty table is returned.  The master table before any dispatch
\* (line 245) has no fund_id column, and selecting on it raises.
SecuritiesStart(g) ==
    /\ gen = g /\ pc = "start"
    /\ IF FundInfoChoices(args) = {} \/ MASTER_SECURITIES_DF = <<>>
       THEN pc' = "raised" /\ loc' = loc
       ELSE \E f \in FundInfoChoices(args) :
              /\ loc' = [fund_info |-> f, securities_for_fund |-> SecuritiesForFund(f)]
              /\ pc' = IF SecuritiesForFund(f) = <<>> THEN "done" ELSE "loop"
    /\ UNCHANGED <<gen, args, i, j, data, n_rows, columns, prev_shape,
                   masterVars, cacheVars, sessionVars>>

\* Lines 485, 520, 556.
SecuritiesReturn(g) ==
    /\ gen = g /\ pc = "loop" /\ i = args.count
    /\ pc' = "done"
    /\ UNCHANGED <<gen, args, i, j, loc, data, n_rows, columns, prev_shape,
                   masterVars, cacheVars, sessionVars>>

\* Lines 441-484: report i.  A client that is not the fund is a shareholder
\* drawn from the master list, identified by its LEI or by a national id.
MifidAppend ==
    /\ gen = "mifid_transaction_report" /\ pc = "loop" /\ i < args.count
    /\ \E security_info \in Range(loc.securities_for_fund),
          client_entity_type \in {"FUND", "SHAREHOLDER", "OTHER_INST"},
          days \in {1, 365} :
        IF client_entity_type # "FUND" /\ MASTER_ENTITIES.shareholders = <<>>
        THEN pc' = "raised" /\ UNCHANGED <<i, data, n_rows, columns>>
        ELSE /\ \E client_id_type \in (IF client_entity_type = "FUND"
                                       THEN {"LEI"} ELSE {"LEI", "NATID"}) :
                  data' = << [report_id |-> "MIFIDTRN" \o Pad(i + 1, 5),
                              fund_id |-> loc.fund_info.fund_id,
                              transaction_date_time |-> days,
                              security_id |-> security_info.security_id,
                              client_id_type |-> client_id_type] >>
             /\ columns' = columns \cup DOMAIN data'[1]
             /\ n_rows' = n_rows + 1
             /\ i' = i + 1
             /\ pc' = "loop"
    /\ UNCHANGED <<gen, args, j, loc, prev_shape, masterVars, cacheVars, sessionVars>>

\* Lines 503-519: order i.  limit_price is a price in cents or None.
OrdersAppend ==
    /\ gen = "trade_orders" /\ pc = "loop" /\ i < args.count
    /\ \E security_info \in Range(loc.securities_for_fund),
          order_type \in {"BUY", "SELL"},
          limit_price \in {None, Some(5000), Some(100000)} :
        data' = << [order_id |-> "ORD" \o Pad(i + 1, 6),
                    fund_id |-> loc.fund_info.fund_id,
                    security_id |-> security_info.security_id,
                    order_type |-> order_type,
                    limit_price |-> limit_price] >>
    /\ columns' = columns \cup DOMAIN data'[1]
    /\ n_rows' = n_rows + 1
    /\ i' = i + 1
    /\ UNCHANGED <<gen, pc, args, j, loc, prev_shape, masterVars, cacheVars, sessionVars>>

\* Lines 535-555: trade i.  Dates are days after 2023-01-01; the order_id is
\* a drawn number, not the id of an order of the orders table.
TradesAppend ==
    /\ gen = "executed_trades" /\ pc = "loop" /\ i < args.count
    /\ \E security_info \in Range(loc.securities_for_fund),
          days \in {1, 365}, settle \in {2, 3},
          order_no \in {1, args.count + 1000} :
        data' = << [trade_id |-> "TRD" \o Pad(i + 1, 6),
                    order_id |-> "ORD" \o Pad(order_no, 6),
                    fund_id |-> loc.fund_info.fund_id,
                    trade_date_time |-> days,
                    security_id |-> security_info.security_id,
                    settlement_date |-> days + settle] >>
    /\ columns' = columns \cup DOMAIN data'[1]
    /\ n_rows' = n_rows + 1
    /\ i' = i + 1
    /\ UNCHANGED <<gen, pc, args, j, loc, prev_shape, masterVars, cacheVars, sessionVars>>

\* Lines 663-678: as SecuritiesStart, then the securities of the fund are
\* sampled without replacement, at most as many as the fund has.
CustodyStart ==
    /\ gen = "custody_holdings" /\ pc = "start"
    /\ IF FundInfoChoices(args) = {} \/ MASTER_SECURITIES_DF = <<>>
       THEN pc' = "raised" /\ loc' = loc
       ELSE \E f \in FundInfoChoices(args) :
              IF SecuritiesForFund(f) = <<>>
              THEN pc' = "done" /\ loc' = [fund_info |-> f, sampled_securities |-> <<>>]
              ELSE /\ pc' = "loop"
                   /\ \E s \in Sample(SecuritiesForFund(f),
                                      Min(args.count, Len(SecuritiesForFund(f)))) :
                        loc' = [fund_info |-> f, sampled_securities |-> s]
    /\ UNCHANGED <<gen, args, i, j, data, n_rows, columns, prev_shape,
                   masterVars, cacheVars, sessionVars>>

\* Lines 680-703: the holding of security i of the sample.
CustodyAppend ==
    /\ gen = "custody_holdings" /\ pc = "loop" /\ i < Len(loc.sampled_securities)
    /\ \E quantity \in {100, 10000} :
        data' = << [fund_id |-> loc.fund_info.fund_id,
                    security_id |-> loc.sampled_securities[i + 1].security_id,
                    quantity |-> quantity] >>
    /\ columns' = columns \cup DOMAIN data'[1]
    /\ n_rows' = n_rows + 1
    /\ i' = i + 1
    /\ UNCHANGED <<gen, pc, args, j, loc, prev_shape, masterVars, cacheVars, sessionVars>>

\* Line 704.
CustodyReturn ==
    /\ gen = "custody_holdings" /\ pc = "loop" /\ i = Len(loc.sampled_securities)
    /\ pc' = "done"
    /\ UNCHANGED <<gen, args, i, j, loc, data, n_rows, columns, prev_shape,
                   masterVars, cacheVars, sessionVars>>

\* Lines 607-613: the fund table with three columns added, one value per
\* fund.  The table before any dispatch has no legal_structure column, and
\* line 612 raises on it.  data holds the whole table; is_open_ended follows
\* from a column the model does not carry and is left out.
generate_genie_fund_characteristics ==
    /\ gen = "fund_characteristics" /\ pc = "start"
    /\ IF MASTER_FUNDS_DF = <<>>
       THEN pc' = "raised" /\ UNCHANGED <<data, n_rows, columns>>
       ELSE /\ pc' = "done"
            /\ \E is_active \in [DOMAIN MASTER_FUNDS_DF -> BOOLEAN],
                  high \in [DOMAIN MASTER_FUNDS_DF -> BOOLEAN] :
                 data' = [k \in DOMAIN MASTER_FUNDS_DF |->
                            MASTER_FUNDS_DF[k] @@
                            [is_active |-> is_active[k],
                             aum_current_estimate |->
                                 IF high[k]
                                 THEN (MASTER_FUNDS_DF[k].target_aum_max * 12) \div 10
                                 ELSE (MASTER_FUNDS_DF[k].target_aum_min * 8) \div 10]]
            /\ n_rows' = Len(MASTER_FUNDS_DF)
            /\ columns' = DOMAIN data'[1]
    /\ UNCHANGED <<gen, args, i, j, loc, prev_shape, masterVars, cacheVars, sessionVars>>

\* A call of one of these generators.  The counts carry the names of the
\* parameters where the generators are modelled apart.
FundReportsInit ==
    /\ pc = "start" /\ i = 0 /\ j = 0 /\ loc = <<>>
    /\ data = <<>> /\ n_rows = 0 /\ columns = {} /\ prev_shape = None
    /\ \E m \in MasterStates(
                    EntityDrawOne(NumShareholders, NumDistributors, NumRepresentatives),
                    FundDrawOne(NumFunds, NumSecuritiesPerFund)) :
        /\ MASTER_ENTITIES = m.entities
        /\ MASTER_FUNDS_DF = m.funds
        /\ MASTER_SECURITIES_DF = m.securities
        /\ \E n \in 0..MaxRecords, t \in FilterChoices,
              f \in {None} \cup {Some(r) : r \in Range(m.funds)} :
            \/ /\ gen = "portfolio_data"
               /\ args = [num_securities_in_portfolio |-> n,
                          fund_type_filter |-> t, fund_info |-> f]
            \/ /\ gen \in {"mifid_transaction_report", "trade_orders",
                           "executed_trades", "custody_holdings"}
               /\ args = [count |-> n, fund_type_filter |-> t, fund_info |-> f]
            \/ /\ gen = "fund_characteristics"
               /\ args = [count |-> 0, fund_type_filter |-> None, fund_info |-> None]
    /\ NoSession

FundReportsNext ==
    \/ PortfolioStart \/ PortfolioAppend \/ PortfolioReturn
    \/ SecuritiesStart("mifid_transaction_report") \/ MifidAppend
    \/ SecuritiesReturn("mifid_transaction_report")
    \/ SecuritiesStart("trade_orders") \/ OrdersAppend
    \/ SecuritiesReturn("trade_orders")
    \/ SecuritiesStart("executed_trades") \/ TradesAppend
    \/ SecuritiesReturn("executed_trades")
    \/ CustodyStart \/ CustodyAppend \/ CustodyReturn
    \/ generate_genie_fund_characteristics

---------------------------------------------------------------------------
(* The generators that take a fund, called on master data that may lack    *)
(* what they need.                                                         *)

\* A fund dict as the funds generator builds them whose fund_id no row of
\* the master tables carries: the fund after the last one generated.
ForeignFund ==
    LET dr == CHOOSE d \in FundDrawOne(NumFunds + 1, NumSecuritiesPerFund) : TRUE
    IN  generate_master_funds_and_securities(
            NumFunds + 1, NumSecuritiesPerFund, dr)[1][NumFunds + 1]

\* A call with any filter and with no fund, a fund of the universe or a
\* fund the master tables do not have.  The master data are as a dispatcher
\* call leaves them, or as the module sets them (lines 243-245) before any
\* dispatcher call.
NoDataInit ==
    /\ pc = "start" /\ i = 0 /\ j = 0 /\ loc = <<>>
    /\ data = <<>> /\ n_rows = 0 /\ columns = {} /\ prev_shape = None
    /\ \E m \in MasterStates(
                    EntityDrawOne(NumShareholders, NumDistributors, NumRepresentatives),
                    FundDrawOne(NumFunds, NumSecuritiesPerFund))
                \cup {[entities |-> NoEntities, funds |-> <<>>, securities |-> <<>>]} :
        /\ MASTER_ENTITIES = m.entities
        /\ MASTER_FUNDS_DF = m.funds
        /\ MASTER_SECURITIES_DF = m.securities
        /\ \E n \in 0..MaxRecords, t \in FilterChoices,
              f \in {None, Some(ForeignFund)} \cup {Some(r) : r \in Range(m.funds)} :
            \/ /\ gen = "securities_transactions"
               /\ args = [num_transactions |-> n, fund_type_filter |-> t, fund_info |-> f]
            \/ /\ gen = "cash_net_activity"
               /\ args = [num_records |-> n, fund_type_filter |-> t, fund_info |-> f]
            \/ /\ gen = "portfolio_data"
               /\ args = [num_securities_in_portfolio |-> n,
                          fund_type_filter |-> t, fund_info |-> f]
            \/ /\ gen \in {"mifid_transaction_report", "trade_orders",
                           "executed_trades", "custody_holdings"}
               /\ args = [count |-> n, fund_type_filter |-> t, fund_info |-> f]
            \/ /\ gen = "fund_characteristics"
               /\ args = [count |-> 0, fund_type_filter |-> None, fund_info |-> None]
    /\ NoSession

NoDataNext ==
    \/ TxnNext
    \/ CashStart \/ CashAppend \/ CashReturn
    \/ FundReportsNext

SpecNoData == NoDataInit /\ [][NoDataNext]_vars

SpecFundReports == FundReportsInit /\ [][FundReportsNext]_vars

\* C11: a generator that depends on the securities of its fund, called for
\* a fund that has no row in the master securities table - the table
\* without any row included - does not raise, and the table it returns is
\* empty.
C11_EmptySecuritiesGiveEmptyTable ==
    (/\ gen \in {"mifid_transaction_report", "trade_orders",
                 "executed_trades", "custody_holdings"}
     /\ args.fund_info # None
     /\ SecuritiesForFund(args.fund_info[1]) = <<>>)
        => /\ pc # "raised"
           /\ pc = "done" => n_rows = 0

\* C12: in a case without data - no fund, no account, or a filter that is
\* absent or names no configured fund type - no generator raises.
C12_NoDataNeverRaises ==
    (\/ MASTER_FUNDS_DF = <<>>
     \/ MASTER_ENTITIES.ta_accounts = <<>>
     \/ args.fund_type_filter = None
     \/ args.fund_type_filter[1] \notin FundTypeKeys)
        => pc # "raised"

---------------------------------------------------------------------------
(* A generator called a second time with the arguments of the first call   *)
(* and the master data as they are.                                        *)

\* A call of the cash or of the corporate-actions generator.
CashCAInit ==
    /\ pc = "start" /\ i = 0 /\ j = 0 /\ loc = <<>>
    /\ data = <<>> /\ n_rows = 0 /\ columns = {} /\ prev_shape = None
    /\ \E m \in MasterStates(
                    EntityDrawOne(NumShareholders, NumDistributors, NumRepresentatives),
                    FundDrawOne(NumFunds, NumSecuritiesPerFund)) :
        /\ MASTER_ENTITIES = m.entities
        /\ MASTER_FUNDS_DF = m.funds
        /\ MASTER_SECURITIES_DF = m.securities
        /\ \E n \in 0..MaxRecords, t \in FilterChoices :
            \/ /\ gen = "cash_net_activity"
               /\ \E f \in {None} \cup {Some(r) : r \in Range(m.funds)} :
                    args = [num_records |-> n, fund_type_filter |-> t, fund_info |-> f]
            \/ /\ gen = "corporate_actions"
               /\ args = [num_cas |-> n, fund_type_filter |-> t]
    /\ NoSession

\* The table returned is kept by its shape, and the generator is entered
\* again with the same arguments.
CallAgain ==
    /\ pc = "done" /\ prev_shape = None
    /\ prev_shape' = Some([n_rows |-> n_rows, columns |-> columns])
    /\ pc' = IF gen = "trial_balance" THEN "loop" ELSE "start"
    /\ i' = 0 /\ j' = 0 /\ loc' = <<>>
    /\ data' = <<>> /\ n_rows' = 0 /\ columns' = {}
    /\ UNCHANGED <<gen, args, masterVars, cacheVars, sessionVars>>

TwiceInit ==
    TBInit \/ FSInit \/ SeriesInit \/ TxnInit \/ CashCAInit \/ FundReportsInit

TwiceNext ==
    \/ TBNext \/ FSNext \/ SeriesNext
    \/ CashStart \/ CashAppend \/ CashReturn
    \/ CAStart \/ CAAppend \/ CAReturn
    \/ TxnNext \/ FundReportsNext
    \/ CallAgain

SpecTwice == TwiceInit /\ [][TwiceNext]_vars

\* C6: a generator called twice with the same arguments (fund reference and
\* count included) and unchanged master data returns two tables of the same
\* shape: the same number of rows and the same set of columns, whatever is
\* drawn in either call.
C6_SameShape ==
    (pc = "done" /\ prev_shape # None) =>
        prev_shape[1] = [n_rows |-> n_rows, columns |-> columns]

\* The second call of the corporate-actions generator has returned two
\* rows, the last one a merger, which has no currency.
C6_Witness ==
    /\ gen = "corporate_actions" /\ pc = "done" /\ prev_shape # None
    /\ n_rows = 2 /\ data[1].ca_type = "MERGER" /\ data[1].currency = None

---------------------------------------------------------------------------
(* The dispatcher generate_selected_reports, lines 852-916, in a Streamlit *)
(* process: every script run executes the module top to bottom, which      *)
(* resets the globals of lines 243-245, while the st.cache_resource stores *)
(* live as long as the process.  A table of the result is kept as          *)
(* [n_rows, fund_ids]: its number of rows and the fund_id values its rows  *)
(* take.                                                                   *)

\* The chain of tests of lines 878-913, in order: the report name tested,
\* the key of the result, the generator called and the multiple of
\* num_records_per_report it is called with (None: called without a count).
ReportCatalog ==
    << [name |-> "Financial Statements", table |-> "financial_statements",
        generator |-> "generate_financial_statements", multiplier |-> Some(1)],
       [name |-> "TA Securities Transactions", table |-> "ta_securities_transactions",
        generator |-> "generate_securities_transactions", multiplier |-> Some(5)],
       [name |-> "TA Portfolio Holdings", table |-> "ta_portfolio_holdings",
        generator |-> "generate_portfolio_data", multiplier |-> Some(1)],
       [name |-> "TA Cash Net Activity", table |-> "ta_cash_net_activity",
        generator |-> "generate_cash_net_activity", multiplier |-> Some(3)],
       [name |-> "MiFID II Transaction Report", table |-> "mifid_transaction_report",
        generator |-> "generate_mifid_transaction_report", multiplier |-> Some(10)],
       [name |-> "Genie - Trade Orders", table |-> "genie_trade_orders",
        generator |-> "generate_genie_trade_orders", multiplier |-> Some(8)],
       [name |-> "Genie - Executed Trades", table |-> "genie_executed_trades",
        generator |-> "generate_genie_executed_trades", multiplier |-> Some(7)],
       [name |-> "Genie - Daily Security Prices", table |-> "genie_daily_security_prices",
        generator |-> "generate_genie_daily_security_prices", multiplier |-> Some(5)],
       [name |-> "Genie - Custody Holdings", table |-> "genie_custody_holdings",
        generator |-> "generate_genie_custody_holdings", multiplier |-> Some(2)],
       [name |-> "Genie - Fund Characteristics", table |-> "genie_fund_characteristics",
        generator |-> "generate_genie_fund_characteristics", multiplier |-> None],
       [name |-> "Genie - Fund Daily NAV", table |-> "genie_fund_daily_nav",
        generator |-> "generate_genie_fund_daily_nav", multiplier |-> Some(5)],
       [name |-> "Genie - Fund Accounting Trial Balance",
        table |-> "genie_fund_accounting_trial_balance",
        generator |-> "generate_genie_fund_accounting_trial_balance", multiplier |-> Some(1)],
       [name |-> "Genie - Corporate Actions", table |-> "genie_corporate_actions",
        generator |-> "generate_genie_corporate_actions", multiplier |-> Some(1)],
       [name |-> "Genie - FX Rates", table |-> "genie_fx_rates",
        generator |-> "generate_genie_fx_rates", multiplier |-> Some(5)] >>

\* The count passed without its multiplier.
RequestedCount_Unscaled(c, n) == IF c.multiplier = None THEN None ELSE Some(n)

\* num_records_per_report * k, the count argument of the call of entry c.
RequestedCount(c, n) == IF c.multiplier = None THEN None ELSE Some(n * c.multiplier[1])

\* Every entry of the catalog, whatever is asked for.
Selected_All(names) == ReportCatalog

\* The entries whose test `name in reports_to_generate_list` succeeds.
Selected(names) == SelectSeq(ReportCatalog, LAMBDA c : c.name \in names)

\* The lists of report names the dispatcher is called with: none, one
\* name, all names, and these with a name the catalog does not have.
ReportNameChoices ==
    LET all == {ReportCatalog[k].name : k \in DOMAIN ReportCatalog}
    IN  {{}, all} \cup {{name} : name \in all}
        \cup {{"Genie - Risk Report"}, all \cup {"Genie - Risk Report"},
              {"Genie - Risk Report", ReportCatalog[1].name}}

\* A table whose rows may carry the fund of any master fund.
ForFund_AnyFund(n, fund_info) ==
    [n_rows |-> n,
     fund_ids |-> IF n = 0 THEN {} ELSE {f.fund_id : f \in Range(MASTER_FUNDS_DF)}]

\* A table of n rows that all have "fund_id": fund_info["fund_id"].
ForFund(n, fund_info) ==
    [n_rows |-> n, fund_ids |-> IF n = 0 THEN {} ELSE {fund_info.fund_id}]

\* A table of n rows for each row of a master table, with the fund_id of
\* that row.
PerMasterRow(n, rows) ==
    [n_rows |-> n * Len(rows),
     fund_ids |-> IF n = 0 THEN {} ELSE {rows[k].fund_id : k \in DOMAIN rows}]

\* The table a generator returns for a count, a filter and a fund, by the
\* structure of its loops (one append per iteration) and its early returns.
ReportTable(generator, count, fund_type_filter, fund_info) ==
    LET securities_for_fund ==
            SelectSeq(MASTER_SECURITIES_DF, LAMBDA r : r.fund_id = fund_info.fund_id)
        securities_of_type == OfFundType(MASTER_SECURITIES_DF, fund_type_filter)
    IN  CASE generator \in {"generate_financial_statements",
                            "generate_securities_transactions",
                            "generate_cash_net_activity"} ->
                ForFund(count, fund_info)
          [] generator = "generate_portfolio_data" ->
                ForFund(Min(count, Len(MASTER_ENTITIES.ta_accounts)), fund_info)
          [] generator \in {"generate_mifid_transaction_report",
                            "generate_genie_trade_orders",
                            "generate_genie_executed_trades"} ->
                ForFund(IF securities_for_fund = <<>> THEN 0 ELSE count, fund_info)
          [] generator = "generate_genie_custody_holdings" ->
                ForFund(Min(count, Len(securities_for_fund)), fund_info)
          [] generator = "generate_genie_fund_accounting_trial_balance" ->
                ForFund(count * Len(all_accounts), fund_info)
          [] generator = "generate_genie_daily_security_prices" ->
                PerMasterRow(count, securities_of_type)
          [] generator = "generate_genie_fund_daily_nav" ->
                PerMasterRow(count, OfFundType(MASTER_FUNDS_DF, fund_type_filter))
          [] generator = "generate_genie_fund_characteristics" ->
                PerMasterRow(1, MASTER_FUNDS_DF)
          [] generator = "generate_genie_corporate_actions" ->
                [n_rows |-> IF securities_of_type = <<>> THEN 0 ELSE count,
                 fund_ids |-> PerMasterRow(count, securities_of_type).fund_ids]
          [] generator = "generate_genie_fx_rates" ->
                [n_rows |-> count * Len(currency_pairs), fund_ids |-> {}]

\* A function that runs again whatever was stored.
Cached_Never(cache, fresh) == fresh

\* A function under st.cache_resource (lines 112, 158): the stored result
\* when there is one, else the result of running it.
Cached(cache, fresh) == IF cache = None THEN fresh ELSE cache[1]

\* A script run starts: lines 243-245 run again, nothing is dispatched yet.
Rerun ==
    /\ gen = "" /\ run < MaxRuns
    /\ run' = run + 1
    /\ pc' = "idle"
    /\ args' = <<>>
    /\ MASTER_ENTITIES' = NoEntities
    /\ MASTER_FUNDS_DF' = <<>>
    /\ MASTER_SECURITIES_DF' = <<>>
    /\ generated_reports_dfs' = <<>>
    /\ selected_fund_info' = None
    /\ calls' = <<>>
    /\ UNCHANGED <<gen, i, j, loc, data, n_rows, columns, prev_shape, cacheVars, pageVars>>

\* generate_selected_reports(fund_type_filter, num_records_per_report,
\* reports_to_generate_list), called by the button handler (line 1042), at
\* most once in a script run.  The cached master functions return the stored
\* objects themselves, so line 870 writes the column into the stored
\* securities table as well.  The draws of a master function are the sample
\* when it runs for the first time; a function that finds its result stored
\* does not run, and one draw stands for what it would have drawn.
\* eds and prices are the samples of the entity draws and of the prices,
\* counts and name_choices the values the caller passes.
DispatchFor(eds, prices, counts, name_choices) ==
    /\ gen = "" /\ pc = "idle"
    /\ \E ed \in IF entities_cache = None
                 THEN eds
                 ELSE EntityDrawOne(NumShareholders, NumDistributors, NumRepresentatives) :
        IF MASTER_ENTITIES = NoEntities
        THEN /\ entities_cache' =
                    Some(Cached(entities_cache,
                                generate_master_entities(NumShareholders, NumDistributors,
                                                         NumRepresentatives, ed)))
             /\ MASTER_ENTITIES' = entities_cache'[1]
        ELSE UNCHANGED <<entities_cache, MASTER_ENTITIES>>
    /\ \E fd \in IF funds_cache = None
                 THEN FundDrawTypes(NumFunds, NumSecuritiesPerFund)
                 ELSE FundDrawOne(NumFunds, NumSecuritiesPerFund),
          p \in prices :
        IF MASTER_FUNDS_DF = <<>> \/ MASTER_SECURITIES_DF = <<>>
        THEN LET pair == Cached(funds_cache,
                                generate_master_funds_and_securities(
                                    NumFunds, NumSecuritiesPerFund, fd))
             IN  /\ MASTER_FUNDS_DF' = pair[1]
                 /\ MASTER_SECURITIES_DF' =
                        WithCurrentPrice(pair[2], [m \in DOMAIN pair[2] |-> p])
                 /\ funds_cache' = Some(<<MASTER_FUNDS_DF', MASTER_SECURITIES_DF'>>)
        ELSE UNCHANGED <<funds_cache, MASTER_FUNDS_DF, MASTER_SECURITIES_DF>>
    /\ \E t \in FundTypeKeys, n \in counts, names \in name_choices :
        /\ args' = [fund_type_filter |-> Some(t), num_records_per_report |-> n,
                    reports_to_generate_list |-> names]
        /\ \E f \in get_random_fund_info(Some(t))' :
            /\ selected_fund_info' = Some(f)
            /\ calls' = [k \in DOMAIN Selected(names) |->
                            [generator |-> Selected(names)[k].generator,
                             count |-> RequestedCount(Selected(names)[k], n)]]
            /\ generated_reports_dfs' =
                   [tb \in {c.table : c \in Range(Selected(names))} |->
                       LET c == CHOOSE c \in Range(ReportCatalog) : c.table = tb
                       IN  ReportTable(c.generator,
                                       IF c.multiplier = None
                                       THEN 0 ELSE RequestedCount(c, n)[1],
                                       Some(t), f)']
    /\ pc' = "returned"
    /\ UNCHANGED <<gen, i, j, loc, data, n_rows, columns, prev_shape, run, pageVars>>

\* The dispatcher called with any base count and any list of names.
Dispatch ==
    DispatchFor(EntityDrawSample(NumShareholders, NumDistributors, NumRepresentatives),
                PriceDraws, 1..MaxRecords, ReportNameChoices)

\* The process starts: nothing is cached, the first script run begins.
Init ==
    /\ gen = "" /\ pc = "idle" /\ args = <<>> /\ i = 0 /\ j = 0 /\ loc = <<>>
    /\ data = <<>> /\ n_rows = 0 /\ columns = {} /\ prev_shape = None
    /\ MASTER_ENTITIES = NoEntities
    /\ MASTER_FUNDS_DF = <<>>
    /\ MASTER_SECURITIES_DF = <<>>
    /\ NoSession

Next == Dispatch \/ Rerun

Spec == Init /\ [][Next]_vars

---------------------------------------------------------------------------
(* The page, lines 965-1101: every script run reads the token and the      *)
(* widgets, connects, and runs the handler of the button that was pressed  *)
(* to its end.  A stored table is the sequence of the batches of rows put  *)
(* into it; a batch is the rows of the table one dispatcher call returned. *)

\* Persistence calls that fail in one behaviour of the model.
MaxFailures == 1

\* The reports selected in the multiselect of line 1020 when the button is
\* pressed: a table that is never empty, one that is empty when the universe
\* has no fund of the selected type, and again one that is never empty.
PageNameChoices ==
    {{"Financial Statements", "Genie - Daily Security Prices", "Genie - FX Rates"}}

\* Everything shown whatever the connection.
PageShown_Always(c) == TRUE

\* `if conn:` (line 993): the widgets and both buttons exist only then.
PageShown(c) == c # None

\* Every table taken for one with rows.
Empty_Never(df) == FALSE

\* df_to_upload.empty (line 1057).
Empty(df) == df.n_rows = 0

\* The insert made whatever the creation returned.
InsertAttempted_Always(created) == TRUE

\* `if create_table_if_not_exists(...)` (line 1059).
InsertAttempted(created) == created

\* A loop that ends at the first table whose upload failed.
AfterTable_StopAtFailure(k, ok, n) == IF ok THEN k + 1 ELSE n

\* The for loop of line 1056 goes on to the next item of the mapping, whatever
\* the calls of the body returned; n is the number of items.
AfterTable(k, ok, n) == k + 1

\* generated_data_dfs.items() (line 1056): the tables in the order the
\* dispatcher inserted them, which is the order of its tests.
UploadOrder ==
    SelectSeq([k \in DOMAIN ReportCatalog |-> ReportCatalog[k].table],
              LAMBDA t : t \in DOMAIN generated_reports_dfs)

\* The rows of a table the dispatcher returned in this script run.
Batch(table_name) ==
    [run |-> run, n_rows |-> generated_reports_dfs[table_name].n_rows]

\* get_motherduck_connection(token), lines 919-933, called when there is a
\* token (line 990).  opened tells whether duckdb.connect and the two
\* statements after it succeed; the result, None included, is stored.
get_motherduck_connection(token, opened) ==
    IF token = None THEN None
    ELSE Cached(conn_cache, IF opened THEN Some("md") ELSE None)

\* create_table_if_not_exists, lines 935-942, on the stored tables st:
\* <<the tables after the call, the value returned>>.  CREATE TABLE IF NOT
\* EXISTS ... AS SELECT * FROM df makes an absent table out of the rows of
\* df and leaves an existing one as it is.
create_table_if_not_exists(st, table_name, df, created) ==
    IF ~created THEN <<st, FALSE>>
    ELSE IF table_name \in DOMAIN st THEN <<st, TRUE>>
    ELSE <<st @@ (table_name :> <<df>>), TRUE>>

\* An insert that never deletes.
insert_data_into_motherduck_NoDelete(st, table_name, df, truncate_before_insert, deleted, inserted) ==
    IF table_name \notin DOMAIN st \/ ~inserted THEN <<st, FALSE, TRUE>>
    ELSE <<[st EXCEPT ![table_name] = @ \o <<df>>], TRUE, TRUE>>

\* insert_data_into_motherduck, lines 944-954: <<the tables after the call,
\* the value returned, whether the warning of line 948 ("Existing data in
\* table ... has been cleared") was shown>>.  Each statement is committed
\* when it returns: deleted and inserted tell whether the DELETE and the
\* INSERT succeed on a table the database has; on one it has not they raise.
\* The warning is the statement after the `if` of lines 946-947.
insert_data_into_motherduck(st, table_name, df, truncate_before_insert, deleted, inserted) ==
    LET exists == table_name \in DOMAIN st
        cleared == IF truncate_before_insert
                   THEN [st EXCEPT ![table_name] = <<>>] ELSE st
    IN  IF truncate_before_insert /\ ~(exists /\ deleted)
        THEN <<st, FALSE, FALSE>>
        ELSE IF ~exists \/ ~inserted THEN <<cleared, FALSE, TRUE>>
        ELSE <<[cleared EXCEPT ![table_name] = @ \o <<df>>], TRUE, TRUE>>

\* The outcomes an external call can have: it fails only while the model
\* has failures left.
Outcomes == IF failures < MaxFailures THEN BOOLEAN ELSE {TRUE}

\* The process starts and the script runs for the first time.
PageInit ==
    /\ gen = "" /\ pc = "idle" /\ args = <<>> /\ i = 0 /\ j = 0 /\ loc = <<>>
    /\ data = <<>> /\ n_rows = 0 /\ columns = {} /\ prev_shape = None
    /\ MASTER_ENTITIES = NoEntities
    /\ MASTER_FUNDS_DF = <<>>
    /\ MASTER_SECURITIES_DF = <<>>
    /\ entities_cache = None /\ funds_cache = None
    /\ generated_reports_dfs = <<>> /\ selected_fund_info = None /\ calls = <<>>
    /\ run = 1
    /\ \E token \in {None, Some("token")}, opened \in BOOLEAN, truncate \in BOOLEAN :
        /\ motherduck_token = token
        /\ conn = IF token # None /\ opened THEN Some("md") ELSE None
        /\ conn_cache = IF token = None THEN None ELSE Some(conn)
        /\ truncate_all_selected_tables = truncate
    /\ db = <<>> /\ log = <<>> /\ failures = 0

\* The script runs again (any interaction reruns it) from its top to the
\* buttons, lines 243-245 and 978-1035: the module globals are set anew, the
\* handlers' results of the last run are gone, the token is configured or
\* not and the checkbox is set or not.
ScriptRun ==
    /\ gen = "" /\ pc \in {"idle", "uploaded", "fetched"} /\ run < MaxRuns
    /\ run' = run + 1
    /\ pc' = "idle" /\ args' = <<>> /\ i' = 0
    /\ MASTER_ENTITIES' = NoEntities
    /\ MASTER_FUNDS_DF' = <<>>
    /\ MASTER_SECURITIES_DF' = <<>>
    /\ generated_reports_dfs' = <<>>
    /\ selected_fund_info' = None
    /\ calls' = <<>>
    /\ log' = <<>>
    /\ \E token \in {None, Some("token")}, opened \in BOOLEAN, truncate \in BOOLEAN :
        /\ motherduck_token' = token
        /\ conn' = get_motherduck_connection(token, opened)
        /\ conn_cache' = IF token = None THEN conn_cache ELSE Some(conn')
        /\ truncate_all_selected_tables' = truncate
    /\ UNCHANGED <<gen, j, loc, data, n_rows, columns, prev_shape, cacheVars,
                   db, failures>>

\* The button of line 1037 with a selection that is not empty: the
\* dispatcher is called (line 1042) for a base count of 1.
Generate ==
    /\ PageShown(conn)
    /\ DispatchFor(EntityDrawOne(NumShareholders, NumDistributors, NumRepresentatives),
                   {1000}, {1}, PageNameChoices)

\* Lines 1056-1059 and 1063-1066: the next item of the mapping is skipped
\* when it has no row, else its table is created.
UploadCreate ==
    /\ gen = "" /\ pc = "returned" /\ PageShown(conn) /\ i < Len(UploadOrder)
    /\ LET report_table_name == UploadOrder[i + 1]
       IN  IF Empty(generated_reports_dfs[report_table_name])
           THEN /\ i' = i + 1
                /\ UNCHANGED <<pc, db, log, failures>>
           ELSE \E created \in Outcomes :
                  LET r == create_table_if_not_exists(
                               db, report_table_name, Batch(report_table_name), created)
                  IN  /\ db' = r[1]
                      /\ log' = Append(log, [op |-> "create", table |-> report_table_name,
                                             ok |-> r[2], deleted |-> FALSE,
                                             warned |-> FALSE])
                      /\ failures' = IF created THEN failures ELSE failures + 1
                      /\ IF InsertAttempted(r[2])
                         THEN pc' = "insert" /\ i' = i
                         ELSE pc' = "returned" /\ i' = AfterTable(i, FALSE, Len(UploadOrder))
    /\ UNCHANGED <<gen, args, j, loc, data, n_rows, columns, prev_shape,
                   masterVars, cacheVars, generated_reports_dfs, selected_fund_info,
                   calls, run, motherduck_token, conn, conn_cache,
                   truncate_all_selected_tables>>

\* Lines 1060-1062: the rows are inserted into the table just created or
\* found; the INSERT is not reached when the DELETE fails.
UploadInsert ==
    /\ gen = "" /\ pc = "insert"
    /\ \E deleted \in (IF truncate_all_selected_tables THEN Outcomes ELSE {TRUE}) :
        \E inserted \in (IF deleted THEN Outcomes ELSE {TRUE}) :
          LET report_table_name == UploadOrder[i + 1]
              r == insert_data_into_motherduck(
                       db, report_table_name, Batch(report_table_name),
                       truncate_all_selected_tables, deleted, inserted)
          IN  /\ db' = r[1]
              /\ log' = Append(log, [op |-> "insert", table |-> report_table_name,
                                     ok |-> r[2],
                                     deleted |-> /\ truncate_all_selected_tables
                                                 /\ deleted
                                                 /\ report_table_name \in DOMAIN db,
                                     warned |-> r[3]])
              /\ failures' = IF deleted /\ inserted THEN failures ELSE failures + 1
              /\ i' = AfterTable(i, r[2], Len(UploadOrder))
    /\ pc' = "returned"
    /\ UNCHANGED <<gen, args, j, loc, data, n_rows, columns, prev_shape,
                   masterVars, cacheVars, generated_reports_dfs, selected_fund_info,
                   calls, run, motherduck_token, conn, conn_cache,
                   truncate_all_selected_tables>>

\* Line 1067: the loop is through.
UploadDone ==
    /\ gen = "" /\ pc = "returned" /\ PageShown(conn) /\ i >= Len(UploadOrder)
    /\ pc' = "uploaded"
    /\ UNCHANGED <<gen, args, i, j, loc, data, n_rows, columns, prev_shape,
                   masterVars, cacheVars, sessionVars>>

\* The button of line 1088: fetch_data_from_motherduck (lines 956-963) reads
\* the table selected; a table the database does not have makes it fail.
Fetch ==
    /\ gen = "" /\ pc = "idle" /\ PageShown(conn)
    /\ \E selected_table_to_view \in {"financial_statements", "genie_fx_rates"},
          fetched \in Outcomes :
        /\ log' = Append(log, [op |-> "fetch", table |-> selected_table_to_view,
                               ok |-> fetched /\ selected_table_to_view \in DOMAIN db,
                               deleted |-> FALSE, warned |-> FALSE])
        /\ failures' = IF fetched THEN failures ELSE failures + 1
    /\ pc' = "fetched"
    /\ UNCHANGED <<gen, args, i, j, loc, data, n_rows, columns, prev_shape,
                   masterVars, cacheVars, generated_reports_dfs, selected_fund_info,
                   calls, run, motherduck_token, conn, conn_cache,
                   truncate_all_selected_tables, db>>

PageNext ==
    \/ ScriptRun \/ Generate
    \/ UploadCreate \/ UploadInsert \/ UploadDone
    \/ Fetch

SpecPage == PageInit /\ [][PageNext]_vars

\* C5: the master generators are cached for the session.  Once a universe
\* is stored, no step replaces it or changes its entities: the shareholders,
\* accounts, distributors and representatives, the funds, and the
\* securities (identifier and fund) stay those of the first call, and the
\* universe a dispatcher call works on is the stored one.
C5_MasterUniverseCached ==
    [][ /\ entities_cache # None => entities_cache' = entities_cache
        /\ funds_cache # None =>
              /\ funds_cache'[1][1] = funds_cache[1][1]
              /\ [m \in DOMAIN funds_cache'[1][2] |->
                     <<funds_cache'[1][2][m].security_id, funds_cache'[1][2][m].fund_id>>]
                 = [m \in DOMAIN funds_cache[1][2] |->
                     <<funds_cache[1][2][m].security_id, funds_cache[1][2][m].fund_id>>]
        /\ pc' = "returned" =>
              /\ MASTER_ENTITIES' = entities_cache'[1]
              /\ MASTER_FUNDS_DF' = funds_cache'[1][1]
              /\ MASTER_SECURITIES_DF' = funds_cache'[1][2] ]_vars

\* The dispatcher has returned in the second script run, and the universe
\* is one that only the first run can have drawn: the first account is
\* linked to the first distributor.
C5_Witness ==
    /\ run = 2 /\ pc = "returned"
    /\ MASTER_ENTITIES.ta_accounts[1].distributor_id = DistId(1)
    /\ MASTER_ENTITIES = entities_cache[1]

\* C8: the mapping the dispatcher returns has an entry for a table exactly
\* when the report name of that table is in reports_to_generate_list; the
\* generators called are those of the names listed; a name the catalog does
\* not have adds nothing, and the dispatcher returns.
C8_EntriesAreTheNamedReports ==
    pc = "returned" =>
        /\ \A c \in Range(ReportCatalog) :
              c.table \in DOMAIN generated_reports_dfs
                  <=> c.name \in args.reports_to_generate_list
        /\ DOMAIN generated_reports_dfs \subseteq {c.table : c \in Range(ReportCatalog)}
        /\ {calls[k].generator : k \in DOMAIN calls}
               = {c.generator : c \in {e \in Range(ReportCatalog) :
                                          e.name \in args.reports_to_generate_list}}

\* The dispatcher returned one table for a list of a known and an unknown name.
C8_Witness ==
    /\ pc = "returned"
    /\ args.reports_to_generate_list = {"Genie - Risk Report", "Financial Statements"}
    /\ DOMAIN generated_reports_dfs = {"financial_statements"}

\* C9: every generator called gets its multiple of the base count n: 5n
\* transactions, 3n cash activities, 10n MiFID rows, 8n orders, 7n trades,
\* 2n custody holdings, 5n days of prices, NAV and FX rates, n for the
\* financial statements, portfolio, trial balance and corporate actions; the
\* transactions table has between 5n and 10n rows.
C9_CountsAreMultiples ==
    pc = "returned" =>
        LET n == args.num_records_per_report
            multiple == [generate_securities_transactions |-> 5,
                         generate_cash_net_activity |-> 3,
                         generate_mifid_transaction_report |-> 10,
                         generate_genie_trade_orders |-> 8,
                         generate_genie_executed_trades |-> 7,
                         generate_genie_custody_holdings |-> 2,
                         generate_genie_daily_security_prices |-> 5,
                         generate_genie_fund_daily_nav |-> 5,
                         generate_genie_fx_rates |-> 5,
                         generate_financial_statements |-> 1,
                         generate_portfolio_data |-> 1,
                         generate_genie_fund_accounting_trial_balance |-> 1,
                         generate_genie_corporate_actions |-> 1]
        IN  /\ \A k \in DOMAIN calls :
                  calls[k].generator \in DOMAIN multiple =>
                      calls[k].count = Some(multiple[calls[k].generator] * n)
            /\ "ta_securities_transactions" \in DOMAIN generated_reports_dfs =>
                  /\ generated_reports_dfs["ta_securities_transactions"].n_rows >= 5 * n
                  /\ generated_reports_dfs["ta_securities_transactions"].n_rows <= 10 * n

\* Every report was asked for with base count 2; the transactions table has
\* ten rows.
C9_Witness ==
    /\ pc = "returned" /\ args.num_records_per_report = 2
    /\ Len(calls) = Len(ReportCatalog)
    /\ generated_reports_dfs["ta_securities_transactions"].n_rows = 10

\* C10: a dispatcher call selects one fund, and the rows of every
\* fund-specific table it returns carry the fund_id of that fund.
C10_RowsCarrySelectedFund ==
    pc = "returned" =>
        /\ Len(selected_fund_info) = 1
        /\ \A tb \in DOMAIN generated_reports_dfs \cap
                     {"financial_statements", "ta_securities_transactions",
                      "ta_portfolio_holdings", "ta_cash_net_activity",
                      "mifid_transaction_report", "genie_trade_orders",
                      "genie_executed_trades", "genie_custody_holdings",
                      "genie_fund_accounting_trial_balance"} :
              generated_reports_dfs[tb].fund_ids \subseteq {selected_fund_info[1].fund_id}

\* All reports were generated for the second of two funds of the selected
\* type, and the fund-specific tables have rows.
C10_Witness ==
    /\ pc = "returned"
    /\ Len(calls) = Len(ReportCatalog)
    /\ \A f \in Range(MASTER_FUNDS_DF) : Some(f.fund_type) = args.fund_type_filter
    /\ selected_fund_info[1].fund_id = FundId(2)
    /\ generated_reports_dfs["genie_custody_holdings"].fund_ids = {FundId(2)}
    /\ generated_reports_dfs["ta_portfolio_holdings"].n_rows > 0

\* C13 as stated: with a filter and no fund passed, the fund
\* get_random_fund_info returns is a fund of the universe of the type the
\* filter names.
C13_FundOfFilterType ==
    pc = "returned" =>
        /\ selected_fund_info[1] \in Range(MASTER_FUNDS_DF)
        /\ selected_fund_info[1].fund_type = args.fund_type_filter[1]

\* C13, amended: the fund returned is a fund of the universe, and it is of
\* the type the filter names whenever the universe has a fund of that type;
\* when it has none the fund is any fund of the universe (line 257).
C13_FundOfFilterTypeWhenAny ==
    pc = "returned" =>
        /\ selected_fund_info[1] \in Range(MASTER_FUNDS_DF)
        /\ (\E g \in Range(MASTER_FUNDS_DF) : g.fund_type = args.fund_type_filter[1])
               => selected_fund_info[1].fund_type = args.fund_type_filter[1]

\* The universe has funds of two types and the dispatcher selected the one
\* of the type asked for.
C13_Witness ==
    /\ pc = "returned"
    /\ \E g \in Range(MASTER_FUNDS_DF) : g.fund_type # args.fund_type_filter[1]
    /\ selected_fund_info[1].fund_type = args.fund_type_filter[1]

\* C14: the net amount of a transaction row follows its direction: gross
\* less fee for SUBSCRIPTION, SWITCH_IN and DIVIDEND_REINVEST, gross plus
\* fee for REDEMPTION, SWITCH_OUT and DIVIDEND_PAYOUT; the type of every
\* row is of exactly one of the two groups.
C14_NetAmountByDirection ==
    gen = "securities_transactions" =>
        \A k \in DOMAIN data :
            LET row == data[k]
                inflow == row.transaction_type \in
                              {"SUBSCRIPTION", "SWITCH_IN", "DIVIDEND_REINVEST"}
                outflow == row.transaction_type \in
                              {"REDEMPTION", "SWITCH_OUT", "DIVIDEND_PAYOUT"}
            IN  /\ inflow # outflow
                /\ inflow => row.net_amount = row.gross_amount - row.transaction_fee
                /\ outflow => row.net_amount = row.gross_amount + row.transaction_fee

\* A redemption with a fee that is not zero has been appended.
C14_Witness ==
    /\ gen = "securities_transactions" /\ pc = "next"
    /\ data[1].transaction_type = "REDEMPTION"
    /\ data[1].transaction_fee > 0
    /\ data[1].net_amount > data[1].gross_amount

\* C15: a create or an insert that fails for one table does not end the
\* upload loop: when the loop is through, every table of the mapping that
\* has rows has had its create attempt, those after a failed one included.
C15_LoopGoesOnAfterFailure ==
    pc = "uploaded" =>
        \A k \in DOMAIN UploadOrder :
            generated_reports_dfs[UploadOrder[k]].n_rows > 0 =>
                \E m \in DOMAIN log :
                    log[m].op = "create" /\ log[m].table = UploadOrder[k]

\* The upload of the first table failed and the last table was uploaded.
C15_Witness ==
    /\ pc = "uploaded"
    /\ log[1].table = "financial_statements" /\ ~log[1].ok
    /\ log[Len(log)] = [op |-> "insert", table |-> "genie_fx_rates",
                        ok |-> TRUE, deleted |-> FALSE, warned |-> TRUE]

\* C16: while the script run has no connection - no token, or a connection
\* that could not be opened - the dispatcher is not called and no create,
\* insert or fetch is made.
C16_NothingWithoutConnection ==
    conn = None =>
        /\ pc = "idle"
        /\ calls = <<>> /\ generated_reports_dfs = <<>> /\ selected_fund_info = None
        /\ log = <<>>

\* A script run with a token whose connection could not be opened.
C16_Witness ==
    /\ run = 2 /\ motherduck_token # None /\ conn = None

\* C17: a table without rows is skipped - no create and no insert is made
\* for it - and the tables after it are still processed.
C17_EmptyTableSkipped ==
    /\ \A m \in DOMAIN log :
          log[m].op \in {"create", "insert"} =>
              generated_reports_dfs[log[m].table].n_rows > 0
    /\ pc = "uploaded" =>
          \A k, l \in DOMAIN UploadOrder :
              (/\ k < l
               /\ generated_reports_dfs[UploadOrder[k]].n_rows = 0
               /\ generated_reports_dfs[UploadOrder[l]].n_rows > 0)
                  => \E m \in DOMAIN log : log[m].table = UploadOrder[l]

\* The price table came empty, and the FX table after it was uploaded.
C17_Witness ==
    /\ pc = "uploaded"
    /\ generated_reports_dfs["genie_daily_security_prices"].n_rows = 0
    /\ \E m \in DOMAIN log :
          log[m].op = "insert" /\ log[m].table = "genie_fx_rates" /\ log[m].ok

\* C19: an insert that succeeds leaves the table with exactly the rows
\* inserted when truncate_before_insert is set, and with the rows it held
\* when the insert was called followed by the rows inserted when it is not.
C19_InsertHonoursFlag ==
    [][(pc = "insert" /\ pc' = "returned" /\ log'[Len(log')].ok) =>
          LET t == UploadOrder[i + 1]
          IN  db'[t] = IF truncate_all_selected_tables
                       THEN <<Batch(t)>>
                       ELSE db[t] \o <<Batch(t)>>]_vars

\* In the second script run a truncating insert replaced what the table
\* held, while a table not yet processed still holds the rows of the first.
C19_Witness ==
    /\ run = 2 /\ truncate_all_selected_tables /\ pc = "returned" /\ i = 1
    /\ log[Len(log)] = [op |-> "insert", table |-> "financial_statements",
                        ok |-> TRUE, deleted |-> TRUE, warned |-> TRUE]
    /\ db["financial_statements"] = <<Batch("financial_statements")>>
    /\ "genie_fx_rates" \in DOMAIN db
    /\ \E b \in Range(db["genie_fx_rates"]) : b.run = 1

\* C20: in one upload run a table gets at most one create and at most one
\* insert, no insert after a create that failed, and a table whose rows were
\* deleted by an insert that then failed stays without rows.
C20_NoRetryNoCleanup ==
    /\ \A m, k \in DOMAIN log :
          (log[m].op = log[k].op /\ log[m].table = log[k].table) => m = k
    /\ \A m, k \in DOMAIN log :
          (log[m].op = "create" /\ ~log[m].ok /\ log[k].table = log[m].table)
              => log[k].op = "create"
    /\ \A m \in DOMAIN log :
          (log[m].op = "insert" /\ log[m].deleted /\ ~log[m].ok)
              => db[log[m].table] = <<>>

\* The rows of the first script run were deleted in the second, whose
\* insert failed: the table is empty, and the loop goes to the next table.
C20_Witness ==
    /\ run = 2 /\ pc = "returned" /\ i = 1
    /\ \E m \in DOMAIN log :
          /\ log[m] = [op |-> "insert", table |-> "financial_statements",
                       ok |-> FALSE, deleted |-> TRUE, warned |-> TRUE]
    /\ db["financial_statements"] = <<>>
    /\ "genie_fx_rates" \in DOMAIN db
    /\ \E b \in Range(db["genie_fx_rates"]) : b.run = 1

\* C18: the master state is written once, by the first dispatcher call
\* that finds it empty: once the master functions have stored their
\* objects, no dispatcher call and no script run changes a stored object -
\* no row and no column of it.
C18_MasterStateWrittenOnce ==
    [][/\ entities_cache # None => entities_cache' = entities_cache
       /\ funds_cache # None => funds_cache' = funds_cache]_vars

\* C21: the balancing adjustment of a report date changes at most one line,
\* a line of that date, and only its offsetting side: when the debits exceed
\* the credits the residual is added to the credit_balance of a liability
\* (2xxx) or equity (3xxx) line, when the credits exceed the debits to the
\* debit_balance of an asset (1xxx) or equity (3xxx) line.  No other step
\* changes a line already in the table.
C21_AdjustmentChangesOneLine ==
    [][gen = "trial_balance" =>
        LET diff == loc.total_debits - loc.total_credits
            changed == {k \in DOMAIN data : data'[k] # data[k]}
        IN  /\ DOMAIN data \subseteq DOMAIN data'
            /\ changed # {} => pc = "adjust"
            /\ Cardinality(changed) <= 1
            /\ \A k \in changed :
                /\ data[k].report_date = loc.report_date
                /\ IF diff > 0
                   THEN /\ data'[k] = [data[k] EXCEPT !.credit_balance = @ + diff]
                        /\ StartsWith(data[k].account_code, 2)
                              \/ StartsWith(data[k].account_code, 3)
                   ELSE /\ diff < 0
                        /\ data'[k] = [data[k] EXCEPT !.debit_balance = @ - diff]
                        /\ StartsWith(data[k].account_code, 1)
                              \/ StartsWith(data[k].account_code, 3)]_vars

\* A finished table of two report dates: the first was adjusted on the
\* credit side of a line, the second on the debit side of a line.
C21_Witness ==
    /\ gen = "trial_balance" /\ pc = "done" /\ args.num_records = 2
    /\ \E k \in DOMAIN data :
          data[k].report_date = 0 /\ data[k].credit_balance \notin ({0} \cup TBAmountDraws)
    /\ \E k \in DOMAIN data :
          data[k].report_date = 30 /\ data[k].debit_balance \notin ({0} \cup TBAmountDraws)

\* C28: every line of a trial-balance table carries its balance on exactly
\* one side - debit_balance > 0 and credit_balance = 0, or credit_balance > 0
\* and debit_balance = 0 - the line that received the adjustment included.
C28_BalanceOnOneSide ==
    gen = "trial_balance" =>
        \A k \in DOMAIN data :
            \/ data[k].debit_balance > 0 /\ data[k].credit_balance = 0
            \/ data[k].credit_balance > 0 /\ data[k].debit_balance = 0

\* C22: creating a table only establishes it: when a table that the
\* database did not have (first script run) has been created and its N rows
\* have been inserted, both with success and without truncation, the stored
\* table holds exactly N rows.
C22_CreateStoresNoRows ==
    \A m \in DOMAIN log :
        (/\ run = 1 /\ ~truncate_all_selected_tables
         /\ log[m].op = "insert" /\ log[m].ok)
            => SumSeq([k \in DOMAIN db[log[m].table] |-> db[log[m].table][k].n_rows])
                   = generated_reports_dfs[log[m].table].n_rows

\* C25: an insert reports that the existing data of the table has been
\* cleared exactly when it deleted the rows; without truncation it reports
\* no clearing and deletes nothing.
C25_ClearedReportedIffDeleted ==
    \A m \in DOMAIN log :
        log[m].op = "insert" =>
            /\ log[m].warned <=> log[m].deleted
            /\ ~truncate_all_selected_tables => ~log[m].warned /\ ~log[m].deleted

\* C23: the master entity set is referentially closed, whatever the positive
\* counts: every representative's distributor_id is the id of a generated
\* distributor, every TA account's shareholder_id, distributor_id and
\* representative_id are the ids of a generated shareholder, distributor and
\* representative, and every shareholder has exactly one TA account.
C23_EntitiesReferentiallyClosed ==
    (gen = "master_entities" /\ pc = "done") =>
        LET e == MASTER_ENTITIES
            ids(rows, field) == {rows[k][field] : k \in DOMAIN rows}
        IN  /\ Len(e.shareholders) = args.num_shareholders
            /\ Len(e.distributors) = args.num_distributors
            /\ Len(e.representatives) = args.num_representatives
            /\ \A k \in DOMAIN e.representatives :
                  e.representatives[k].distributor_id \in ids(e.distributors, "distributor_id")
            /\ \A k \in DOMAIN e.ta_accounts :
                  /\ e.ta_accounts[k].shareholder_id \in ids(e.shareholders, "shareholder_id")
                  /\ e.ta_accounts[k].distributor_id \in ids(e.distributors, "distributor_id")
                  /\ e.ta_accounts[k].representative_id
                        \in ids(e.representatives, "representative_id")
            /\ \A s \in DOMAIN e.shareholders :
                  Cardinality({k \in DOMAIN e.ta_accounts :
                                  e.ta_accounts[k].shareholder_id
                                      = e.shareholders[s].shareholder_id}) = 1

\* Two of each: the representatives are of different distributors and the
\* accounts are linked to different representatives.
C23_Witness ==
    /\ gen = "master_entities" /\ pc = "done"
    /\ Len(MASTER_ENTITIES.ta_accounts) = 2
    /\ Len(MASTER_ENTITIES.representatives) = 2
    /\ MASTER_ENTITIES.representatives[1].distributor_id = DistId(2)
    /\ MASTER_ENTITIES.representatives[2].distributor_id = DistId(1)
    /\ MASTER_ENTITIES.ta_accounts[1].representative_id = RepId(2)
    /\ MASTER_ENTITIES.ta_accounts[2].representative_id = RepId(1)

\* C24: for every TA account the linked representative belongs to the
\* linked distributor: the distributor_id stored on the account's
\* representative is the account's distributor_id.
C24_RepresentativeOfLinkedDistributor ==
    (gen = "master_entities" /\ pc = "done") =>
        \A k \in DOMAIN MASTER_ENTITIES.ta_accounts :
            \A r \in DOMAIN MASTER_ENTITIES.representatives :
                MASTER_ENTITIES.representatives[r].representative_id
                        = MASTER_ENTITIES.ta_accounts[k].representative_id
                    => MASTER_ENTITIES.representatives[r].distributor_id
                           = MASTER_ENTITIES.ta_accounts[k].distributor_id

\* C26: in the daily price and NAV series the previous value is threaded per
\* entity.  A finished table has one row per entity per day; and when the
\* row of an entity is computed, the value it is computed from is not one
\* written for another row of the same day: no row of the day so far has
\* the key under which the generator keeps this entity's value.
C26_ValueThreadedPerEntity ==
    /\ (gen = "daily_security_prices" /\ pc = "rows") =>
          \A k \in DOMAIN data : data[k].security_id # loc.rows[j].security_id
    /\ (gen = "fund_daily_nav" /\ pc = "rows") =>
          \A k \in DOMAIN data : data[k].fund_id # loc.rows[j].fund_id
    /\ (gen \in {"daily_security_prices", "fund_daily_nav"} /\ pc = "done" /\ loc # <<>>) =>
          n_rows = args.num_days * Len(loc.rows)

\* C27: in a transactions table generated for a configured fund type the
\* row appended by iteration i has the id TRN(i+1) and a transaction_date
\* later than that of the row before it (2023-01-01 for the first), by
\* between the minimum and the maximum days of the fund type; its
\* settlement_date is 1 to 3 days after its transaction_date.  The date the
\* generator carries to the next iteration is the date of the row.
C27_DatesIncreaseWithId ==
    [][(gen = "securities_transactions" /\ pc = "loop" /\ pc' = "next") =>
          LET row == data'[1]
              fund_config == FUND_TYPES[args.fund_type_filter[1]]
          IN  /\ row.transaction_id = "TRN" \o Pad(i + 1, 5)
              /\ row.transaction_date > loc.current_date
              /\ row.transaction_date - loc.current_date
                    \in fund_config.tx_min..fund_config.tx_max
              /\ row.settlement_date - row.transaction_date \in 1..3
              /\ loc'.current_date = row.transaction_date]_vars

\* The second row of a Private Equity table, 30 and then 180 days after the
\* start date, settled three days later.
C27_Witness ==
    /\ gen = "securities_transactions" /\ pc = "next" /\ i = 1
    /\ args.fund_type_filter = Some("Private Equity")
    /\ data[1].transaction_id = "TRN00002"
    /\ data[1].transaction_date = 210
    /\ data[1].settlement_date = 213

===========================================================================
